---- MODULE Spec2Model ----
(***************************************************************************)
(* Machine deployment of flyctl (internal/command/deploy/machines.go):     *)
(* the lease layer of a LeasableMachine, the fan-out/fan-in of a           *)
(* MachineSet, the release command and the rollout of DeployMachinesApp.   *)
(*                                                                         *)
(* The specifications share the lease layer and all variables; each holds  *)
(* fixed the variables it does not use:                                    *)
(*   SpecLease  several rollouts, each with its own LeasableMachine for    *)
(*              the same VM, calling Update / AcquireLease / ReleaseLease  *)
(*              in any order against a control plane that grants at most   *)
(*              one unexpired lease per VM.  A handler that calls the      *)
(*              control plane is two steps, the call and the return, since *)
(*              other rollouts run between them.                           *)
(*   Spec       one run of DeployMachinesApp, the control plane's answers  *)
(*              being arbitrary.                                           *)
(*   SpecMachine  one LeasableMachine, its handlers called in any order.   *)
(*   SpecFleet  setMachinesForDeployment over every fleet that can be      *)
(*              listed.                                                    *)
(*   SpecConfig launchInputForUpdate over bounded machines, configs and    *)
(*              pools of unattached volumes.                               *)
(*   SpecFan    one call of AcquireLeases or ReleaseLeases, its goroutines *)
(*              fairly scheduled.                                          *)
(*   SpecWait   one call of WaitForState, with its clock and timeout.      *)
(*   SpecEvent  one call of WaitForEventTypeAfterType, the machine's event *)
(*              history growing while it polls.                            *)
(***************************************************************************)
EXTENDS Integers, Sequences, FiniteSets, TLC

VARIABLES
    now,              \* time.Now(), in ticks
    leaseNonce,       \* leasableMachine.leaseNonce, per LeasableMachine
    leaseExpiration,  \* leasableMachine.leaseExpiration, per LeasableMachine
    machine,          \* leasableMachine.machine (the local VM snapshot)
    \* ---- SpecLease
    cpLease,          \* the control plane's lease on the VM
    cpGrants,         \* leases the control plane has granted so far
    inflight,         \* per rollout: the control-plane call it is waiting on
    last,             \* per rollout: what its last finished handler returned
    \* ---- Spec
    md,               \* machineDeployment: strategy, flags, the two MachineSets
    ctx,              \* the context DeployMachinesApp runs under
    pc,               \* where the main goroutine of DeployMachinesApp is
    stack,            \* where AcquireLeases / ReleaseLeases return to
    ms,               \* the MachineSet AcquireLeases / ReleaseLeases runs on
    fan,              \* the fan-out: workers to run, results channel, wait group
    idx,              \* position of the update loop in machineSet
    polls,            \* attempts the current wait loop has made
    ret,              \* what the last AcquireLeases / ReleaseLeases / wait returned
    held,             \* the error a function returns once its deferred call ran
    result,           \* what DeployMachinesApp returned
    exitCode,         \* the exit code runReleaseCommand inspected
    calls,            \* control-plane calls issued, per LeasableMachine
    launches,         \* flapsClient.Launch calls issued (their process groups)
    trace,            \* the main goroutine's calls on LeasableMachines, in order
    \* ---- SpecFleet, SpecConfig
    fleet,            \* the VMs the control plane lists for the app
    orig,             \* origMachineRaw: the VM launchInputForUpdate starts from
    mConfig,          \* mConfig: what the app config resolves to for its group
    volumes,          \* md.volumes: the unattached volumes of the app
    resolved          \* what launchInputForUpdate returned

leaseVars == <<leaseNonce, leaseExpiration, machine>>
cpVars == <<cpLease, cpGrants, inflight, last>>
depVars == <<md, ctx, pc, stack, ms, fan, idx, polls, ret, held, result, exitCode,
             calls, launches, trace>>
cfgVars == <<fleet, orig, mConfig, volumes, resolved>>

\* ---------------------------------------------------------------- bounds
MaxLeaseTime == 4
MaxGrants == 3
LeaseTtl == 2
MaxMachines == 2
MaxTime == 3
MaxPolls == 1

\* ---------------------------------------------------------------- values
\* time.Time{}: the zero time, before every clock value
ZeroTime == 0
\* the clock starts after the zero time
StartTime == 1

OrigMachine == [rev |-> "orig", checks |-> "nil"]

NoData == [present |-> FALSE, Nonce |-> "", ExpiresAt |-> 0]

LeaseData(nonce, expiresAt) == [present |-> TRUE, Nonce |-> nonce, ExpiresAt |-> expiresAt]

\* ------------------------------------------------------- LeasableMachine
\* HasLease without the expiry test
HasLeaseIgnoringExpiry(lm) == leaseNonce[lm] # ""

HasLease(lm) == leaseNonce[lm] # "" /\ leaseExpiration[lm] > now

\* AcquireLease returns an error on this response
AcquireLeaseFails(resp) ==
    \/ resp.err # "nil"
    \/ resp.Status # "success"
    \/ ~resp.Data.present

\* the fields AcquireLease leaves behind, given the control plane's response
AcquiredNonce(lm, resp) ==
    IF AcquireLeaseFails(resp) THEN leaseNonce[lm] ELSE resp.Data.Nonce

\* a lease recorded one tick longer than the control plane granted it
AcquiredExpirationPadded(lm, resp) ==
    IF AcquireLeaseFails(resp) THEN leaseExpiration[lm] ELSE resp.Data.ExpiresAt + 1

AcquiredExpiration(lm, resp) ==
    IF AcquireLeaseFails(resp) THEN leaseExpiration[lm] ELSE resp.Data.ExpiresAt

\* the snapshot Update leaves behind, given the control plane's response
UpdatedMachine(lm, resp) ==
    IF resp.err # "nil" THEN machine[lm] ELSE resp.machine

\* time.Since(lm.leaseExpiration) > 5*time.Second
SkewTolerance == 5

ExpiredBeyondSkew(lm) == now - leaseExpiration[lm] > SkewTolerance

\* ------------------------------------------------------ machineDeployment
\* md.strategy, which the code only ever compares with "immediate"
Strategies == {"rolling", "immediate"}

\* the release-command LeasableMachine, and the app LeasableMachines 1..n
RC == 0

LMs == 0..MaxMachines

\* the goroutines still to run, the results channel, the WaitGroup, hadError,
\* contextWasAlreadyCanceled, how many workers have sent an error, and the
\* errors the ReleaseLease workers have sent
NoFan == [todo |-> {}, results |-> <<>>, wg |-> 0, closed |-> FALSE,
          hadError |-> FALSE, wasCanceled |-> FALSE, failed |-> 0, errs |-> {}]

NoCalls == [acquire |-> 0, release |-> 0, update |-> 0, start |-> 0]

\* no deployment is running (SpecLease)
NoDeployment ==
    /\ md = [strategy |-> "rolling", skipHealthChecks |-> FALSE, restartOnly |-> FALSE,
             releaseCommand |-> "", machineSet |-> <<>>, releaseCommandMachine |-> <<>>]
    /\ ctx = "live"
    /\ pc = "done"
    /\ stack = <<>>
    /\ ms = <<>>
    /\ fan = NoFan
    /\ idx = 0
    /\ polls = 0
    /\ ret = "nil"
    /\ held = "nil"
    /\ result = "pending"
    /\ exitCode = -1
    /\ calls = [lm \in {} |-> NoCalls]
    /\ launches = <<>>
    /\ trace = <<>>

\* No fleet has been listed and no machine config is being resolved.
NoConfig ==
    /\ fleet = <<>>
    /\ orig = <<>>
    /\ mConfig = <<>>
    /\ volumes = <<>>
    /\ resolved = <<>>

\* ------------------------------------------------- control plane (SpecLease)
\* the rollout invocations running at once, each with its own LeasableMachine
Rollouts == {1, 2}

NoCPLease == [nonce |-> "", exp |-> ZeroTime]

UpdatedMachineRec == [rev |-> "updated", checks |-> "nil"]

NoCall == [op |-> "none", err |-> "nil", Status |-> "", Data |-> NoData,
           machine |-> OrigMachine]

NoReturn == [op |-> "none", err |-> "nil", api |-> FALSE]

\* what happens to a request on its way: it arrives and is answered, it never
\* arrives, or it arrives and the answer is lost
Net == {"delivered", "req_lost", "resp_lost"}

\* the control plane holds no unexpired lease on the VM
CPFree == cpLease.nonce = "" \/ cpLease.exp <= now

\* the control plane accepts an update or a release carrying this nonce
CPHolds(nonce) == cpLease.nonce = nonce /\ cpLease.nonce # "" /\ cpLease.exp > now

CPMatches(nonce) == cpLease.nonce = nonce /\ cpLease.nonce # ""

NetErr(net) == IF net = "delivered" THEN "nil" ELSE "other"

\* ------------------------------------------------------ SpecLease actions
Returned(r, op, err, api) ==
    last' = [last EXCEPT ![r] = [op |-> op, err |-> err, api |-> api]]

\* Update up to and including the control plane's handling of the request
UpdateCall(r) ==
    /\ UNCHANGED <<depVars, cfgVars>>
    /\ inflight[r].op = "none"
    /\ IF ~HasLease(r)
       THEN /\ Returned(r, "Update", "no current lease", FALSE)
            /\ UNCHANGED <<now, leaseVars, cpLease, cpGrants, inflight>>
       ELSE \E net \in Net :
            LET accepted == net # "req_lost" /\ CPHolds(leaseNonce[r])
                err == IF net = "delivered" /\ ~accepted THEN "other" ELSE NetErr(net)
            IN  /\ inflight' = [inflight EXCEPT ![r] =
                       [NoCall EXCEPT !.op = "Update", !.err = err,
                                      !.machine = UpdatedMachineRec]]
                /\ UNCHANGED <<now, leaseVars, cpLease, cpGrants, last>>

UpdateReturn(r) ==
    /\ UNCHANGED <<depVars, cfgVars>>
    /\ inflight[r].op = "Update"
    /\ machine' = [machine EXCEPT ![r] = UpdatedMachine(r, inflight[r])]
    /\ Returned(r, "Update", inflight[r].err, TRUE)
    /\ inflight' = [inflight EXCEPT ![r] = NoCall]
    /\ UNCHANGED <<now, leaseNonce, leaseExpiration, cpLease, cpGrants>>

AcquireLeaseCall(r) ==
    /\ UNCHANGED <<depVars, cfgVars>>
    /\ inflight[r].op = "none"
    /\ IF HasLease(r)
       THEN /\ Returned(r, "AcquireLease", "nil", FALSE)
            /\ UNCHANGED <<now, leaseVars, cpLease, cpGrants, inflight>>
       ELSE \E net \in Net :
            LET granted == net # "req_lost" /\ CPFree
                nonce == ToString(cpGrants + 1)
                resp == IF net # "delivered"
                        THEN [NoCall EXCEPT !.op = "AcquireLease", !.err = "other"]
                        ELSE IF granted
                        THEN [NoCall EXCEPT !.op = "AcquireLease", !.Status = "success",
                                            !.Data = LeaseData(nonce, now + LeaseTtl)]
                        ELSE [NoCall EXCEPT !.op = "AcquireLease", !.Status = "error"]
            IN  /\ granted => cpGrants < MaxGrants
                /\ cpLease' = IF granted THEN [nonce |-> nonce, exp |-> now + LeaseTtl]
                              ELSE cpLease
                /\ cpGrants' = IF granted THEN cpGrants + 1 ELSE cpGrants
                /\ inflight' = [inflight EXCEPT ![r] = resp]
                /\ UNCHANGED <<now, leaseVars, last>>

AcquireLeaseReturn(r) ==
    /\ UNCHANGED <<depVars, cfgVars>>
    /\ inflight[r].op = "AcquireLease"
    /\ leaseNonce' = [leaseNonce EXCEPT ![r] = AcquiredNonce(r, inflight[r])]
    /\ leaseExpiration' =
           [leaseExpiration EXCEPT ![r] = AcquiredExpiration(r, inflight[r])]
    /\ Returned(r, "AcquireLease",
                IF AcquireLeaseFails(inflight[r]) THEN "lease error" ELSE "nil", TRUE)
    /\ inflight' = [inflight EXCEPT ![r] = NoCall]
    /\ UNCHANGED <<now, machine, cpLease, cpGrants>>

\* resetLease
ResetNonce(lm) == [leaseNonce EXCEPT ![lm] = ""]

ResetExpiration(lm) == [leaseExpiration EXCEPT ![lm] = ZeroTime]

\* a ReleaseLease that returns the error of the flaps call without resetLease
NonceKeptOnReleaseError(lm, err) ==
    IF err # "nil" THEN leaseNonce ELSE ResetNonce(lm)

\* the nonces once flapsClient.ReleaseLease returned err: reset on both paths
NonceAfterRelease(lm, err) == ResetNonce(lm)

ExpirationAfterRelease(lm, err) == ResetExpiration(lm)

ReleaseLeaseCall(r) ==
    /\ UNCHANGED <<depVars, cfgVars>>
    /\ inflight[r].op = "none"
    /\ IF ~HasLease(r) \/ ExpiredBeyondSkew(r)
       THEN /\ leaseNonce' = ResetNonce(r)
            /\ leaseExpiration' = ResetExpiration(r)
            /\ Returned(r, "ReleaseLease", "nil", FALSE)
            /\ UNCHANGED <<now, machine, cpLease, cpGrants, inflight>>
       ELSE \E net \in Net :
            LET released == net # "req_lost" /\ CPMatches(leaseNonce[r])
                err == IF net = "delivered" /\ ~released THEN "other" ELSE NetErr(net)
            IN  /\ cpLease' = IF released THEN NoCPLease ELSE cpLease
                /\ inflight' = [inflight EXCEPT ![r] =
                       [NoCall EXCEPT !.op = "ReleaseLease", !.err = err]]
                /\ UNCHANGED <<now, leaseVars, cpGrants, last>>

ReleaseLeaseReturn(r) ==
    /\ UNCHANGED <<depVars, cfgVars>>
    /\ inflight[r].op = "ReleaseLease"
    /\ leaseNonce' = NonceAfterRelease(r, inflight[r].err)
    /\ leaseExpiration' = ExpirationAfterRelease(r, inflight[r].err)
    /\ Returned(r, "ReleaseLease", inflight[r].err, TRUE)
    /\ inflight' = [inflight EXCEPT ![r] = NoCall]
    /\ UNCHANGED <<now, machine, cpLease, cpGrants>>

TickLease ==
    /\ now < MaxLeaseTime
    /\ now' = now + 1
    /\ UNCHANGED <<leaseVars, cpVars, cfgVars, depVars>>

InitLease ==
    /\ now = StartTime
    /\ leaseNonce = [r \in Rollouts |-> ""]
    /\ leaseExpiration = [r \in Rollouts |-> ZeroTime]
    /\ machine = [r \in Rollouts |-> OrigMachine]
    /\ cpLease = NoCPLease
    /\ cpGrants = 0
    /\ inflight = [r \in Rollouts |-> NoCall]
    /\ last = [r \in Rollouts |-> NoReturn]
    /\ NoDeployment
    /\ NoConfig

NextLease ==
    \/ \E r \in Rollouts : UpdateCall(r)
    \/ \E r \in Rollouts : UpdateReturn(r)
    \/ \E r \in Rollouts : AcquireLeaseCall(r)
    \/ \E r \in Rollouts : AcquireLeaseReturn(r)
    \/ \E r \in Rollouts : ReleaseLeaseCall(r)
    \/ \E r \in Rollouts : ReleaseLeaseReturn(r)
    \/ TickLease

vars == <<now, leaseVars, cpVars, depVars, cfgVars>>

SpecLease == InitLease /\ [][NextLease]_vars

\* ------------------------------------------------------------------ C1
\* C1: whenever Update is called while HasLease() is false (nonce empty or
\* expiry not after now), it returns an error, issues no update call to the
\* control plane and leaves the local VM snapshot and the lease fields as
\* they were.
C1_UpdateWithoutLease ==
    [][\A r \in Rollouts :
          (UpdateCall(r) /\ (leaseNonce[r] = "" \/ leaseExpiration[r] <= now)) =>
              /\ last'[r].op = "Update"
              /\ last'[r].err # "nil"
              /\ ~last'[r].api
              /\ inflight'[r].op = "none"
              /\ machine' = machine
              /\ leaseNonce' = leaseNonce
              /\ leaseExpiration' = leaseExpiration]_vars

\* an Update was refused on a lease that had expired
C1_Witness ==
    \E r \in Rollouts :
        /\ last[r] = [op |-> "Update", err |-> "no current lease", api |-> FALSE]
        /\ leaseNonce[r] # ""
        /\ leaseExpiration[r] <= now

C10_BothOnlyDuringRelease ==
    \A r1, r2 \in Rollouts :
        (r1 # r2 /\ HasLease(r1) /\ HasLease(r2)) =>
            (inflight[r1].op = "ReleaseLease" \/ inflight[r2].op = "ReleaseLease")

C10_UpdateUnderControlPlaneLease ==
    \A r \in Rollouts :
        (inflight[r].op # "Update" /\ inflight'[r].op = "Update") =>
            /\ cpLease.nonce = leaseNonce[r]
            /\ cpLease.exp > now
            /\ \A q \in Rollouts \ {r} :
                   HasLease(q) => inflight[q].op = "ReleaseLease"

ApiErrs(c) ==
    CASE c = "canceled" -> {"canceled"}
      [] c = "deadline" -> {"deadline"}
      [] OTHER -> {"nil", "other"}

\* the error of a flaps call made under a context with a timeout of its own
TimedApiErrs(c) ==
    CASE c = "canceled" -> {"canceled"}
      [] c = "deadline" -> {"deadline"}
      [] OTHER -> {"nil", "other", "deadline"}

\* what flapsClient.AcquireLease can answer
AcquireResponses ==
    IF ctx # "live"
    THEN {[err |-> ctx, Status |-> "", Data |-> NoData]}
    ELSE {[err |-> "other", Status |-> "", Data |-> NoData],
          [err |-> "nil", Status |-> "error", Data |-> NoData],
          [err |-> "nil", Status |-> "success", Data |-> NoData],
          [err |-> "nil", Status |-> "success", Data |-> LeaseData("nonce", now + LeaseTtl)],
          [err |-> "nil", Status |-> "success", Data |-> LeaseData("", now + LeaseTtl)],
          [err |-> "nil", Status |-> "success", Data |-> LeaseData("nonce", ZeroTime)]}

\* Config.Checks of a machine: nil, an allocated collection holding no check,
\* or a collection of checks
CheckKinds == {"nil", "empty", "set"}

\* what flapsClient.Update can answer
UpdateResponses ==
    {[err |-> e, machine |-> OrigMachine] : e \in ApiErrs(ctx) \ {"nil"}}
    \cup (IF ctx = "live"
          THEN {[err |-> "nil", machine |-> [rev |-> "updated", checks |-> c]] :
                   c \in CheckKinds}
          ELSE {})

ExitCodes == {0, 7}

\* ---------------------------------------------- LeasableMachine handlers
CountCall(lm, op) ==
    CASE op = "acquire" -> [calls EXCEPT ![lm].acquire = @ + 1]
      [] op = "release" -> [calls EXCEPT ![lm].release = @ + 1]
      [] op = "update" -> [calls EXCEPT ![lm].update = @ + 1]
      [] op = "start" -> [calls EXCEPT ![lm].start = @ + 1]

\* an AcquireLease without the early return
AcquireIsNoopNever(lm) == FALSE

\* if lm.HasLease() { return nil }
AcquireIsNoop(lm) == HasLease(lm)

\* AcquireLease(lm) when flaps would answer resp: the error it returns
AcquireLeaseErr(lm, resp) ==
    IF AcquireIsNoop(lm) THEN "nil"
    ELSE IF resp.err # "nil" THEN resp.err
    ELSE IF AcquireLeaseFails(resp) THEN "lease error"
    ELSE "nil"

AcquireLease(lm, resp) ==
    IF AcquireIsNoop(lm)
    THEN UNCHANGED <<leaseNonce, leaseExpiration, calls>>
    ELSE /\ leaseNonce' = [leaseNonce EXCEPT ![lm] = AcquiredNonce(lm, resp)]
         /\ leaseExpiration' =
                [leaseExpiration EXCEPT ![lm] = AcquiredExpiration(lm, resp)]
         /\ calls' = CountCall(lm, "acquire")

\* a ReleaseLease that tests the nonce alone, not the expiry
ReleaseCallsApiWithNonce(lm) == leaseNonce[lm] # ""

\* ReleaseLease reaches flapsClient.ReleaseLease
ReleaseCallsApi(lm) == HasLease(lm) /\ ~ExpiredBeyondSkew(lm)

\* the nonce flapsClient.ReleaseLease is called with, if it is called
ReleaseNonceSent(lm) == IF ReleaseCallsApi(lm) THEN leaseNonce[lm] ELSE "no call"

ReleaseLeaseErr(lm, err) == IF ReleaseCallsApi(lm) THEN err ELSE "nil"

\* the mutation: a ReleaseLease that leaves out resetLease
ReleaseLeaseWithoutReset(lm, err) ==
    /\ UNCHANGED <<leaseNonce, leaseExpiration>>
    /\ calls' = IF ReleaseCallsApi(lm) THEN CountCall(lm, "release") ELSE calls

ReleaseLease(lm, err) ==
    IF ReleaseCallsApi(lm)
    THEN /\ leaseNonce' = NonceAfterRelease(lm, err)
         /\ leaseExpiration' = ExpirationAfterRelease(lm, err)
         /\ calls' = CountCall(lm, "release")
    ELSE /\ leaseNonce' = ResetNonce(lm)
         /\ leaseExpiration' = ResetExpiration(lm)
         /\ UNCHANGED calls

\* a Start that tests the lease the way Update does
StartRefusedWithoutLease(lm) == ~HasLease(lm)

\* if lm.HasLease() { return fmt.Errorf("error cannot start machine ...") }
StartRefused(lm) == HasLease(lm)

StartErr(lm, err) == IF StartRefused(lm) THEN "has lease" ELSE err

Start(lm, err) ==
    IF StartRefused(lm)
    THEN UNCHANGED calls
    ELSE calls' = CountCall(lm, "start")

\* the mutation: Update looks at the nonce alone, not at the expiry
UpdateRefusedWithoutNonce(lm) == leaseNonce[lm] = ""

\* if !lm.HasLease() { return fmt.Errorf("no current lease for machine ...") }
UpdateRefused(lm) == ~HasLease(lm)

UpdateErr(lm, resp) == IF UpdateRefused(lm) THEN "no current lease" ELSE resp.err

Update(lm, resp) ==
    IF UpdateRefused(lm)
    THEN UNCHANGED <<machine, calls>>
    ELSE /\ machine' = [machine EXCEPT ![lm] = UpdatedMachine(lm, resp)]
         /\ calls' = CountCall(lm, "update")

\* ------------------------------------------------------------ MachineSet
Range(seq) == {seq[i] : i \in 1..Len(seq)}

IsEmpty(set) == Len(set) = 0

SeqTo(n) == [i \in 1..n |-> i]

Call(target, returnTo) ==
    /\ pc' = target
    /\ stack' = <<returnTo>> \o stack

Return(err) ==
    /\ ret' = err
    /\ pc' = Head(stack)
    /\ stack' = Tail(stack)

\* results := make(chan error, len(ms.machines))
Capacity == Len(ms)

\* results <- err blocks while the channel's buffer is full
SendBlocks == Len(fan.results) >= Capacity

\* the mutation: the channel is closed once one worker is left
WaitGroupDoneEarly == fan.wg <= 1

\* the mutation: the closer goroutine does not wait for the workers
WaitGroupNotAwaited == TRUE

\* wg.Wait() returns
WaitGroupDone == fan.wg = 0

\* AcquireLeases: the channel is made and one goroutine per member started
AcquireLeases ==
    /\ pc = "AcquireLeases"
    /\ fan' = [NoFan EXCEPT !.todo = Range(ms), !.wg = Len(ms)]
    /\ pc' = "acq_collect"
    /\ UNCHANGED <<now, leaseVars, cpVars, cfgVars, md, ctx, stack, ms, idx, polls, ret, held,
                   result, exitCode, calls, launches, trace>>

\* one worker: results <- m.AcquireLease(ctx, duration); wg.Done()
AcquireWorker(lm) ==
    /\ pc = "acq_collect"
    /\ lm \in fan.todo
    /\ ~SendBlocks
    /\ \E resp \in AcquireResponses :
          /\ AcquireLease(lm, resp)
          /\ fan' = [fan EXCEPT !.todo = @ \ {lm},
                                !.results = Append(@, AcquireLeaseErr(lm, resp)),
                                !.wg = @ - 1,
                                !.failed = IF AcquireLeaseErr(lm, resp) # "nil"
                                           THEN @ + 1 ELSE @]
    /\ UNCHANGED <<now, machine, cpVars, cfgVars, md, ctx, pc, stack, ms, idx, polls, ret, held,
                   result, exitCode, launches, trace>>

\* go func() { wg.Wait(); close(results) }()
CloseResults ==
    /\ pc \in {"acq_collect", "rel_collect"}
    /\ WaitGroupDone
    /\ ~fan.closed
    /\ fan' = [fan EXCEPT !.closed = TRUE]
    /\ UNCHANGED <<now, leaseVars, cpVars, cfgVars, md, ctx, pc, stack, ms, idx, polls, ret, held,
                   result, exitCode, calls, launches, trace>>

\* the mutation: hadError = err != nil, so that a later nil clears it
AcquireHadErrorLastOnly(hadError, err) == err # "nil"

\* if err != nil { hadError = true }
AcquireHadError(hadError, err) == hadError \/ err # "nil"

\* for err := range results, in AcquireLeases
AcquireCollect ==
    /\ pc = "acq_collect"
    /\ fan.results # <<>>
    /\ fan' = [fan EXCEPT !.results = Tail(@),
                          !.hadError = AcquireHadError(@, Head(fan.results))]
    /\ UNCHANGED <<now, leaseVars, cpVars, cfgVars, md, ctx, pc, stack, ms, idx, polls, ret, held,
                   result, exitCode, calls, launches, trace>>

\* the range loop ended: release every lease on an error, else return nil
AcquireLeasesCollected ==
    /\ pc = "acq_collect"
    /\ fan.results = <<>>
    /\ fan.closed
    /\ IF fan.hadError
       THEN Call("ReleaseLeases", "acq_cleanup") /\ UNCHANGED ret
       ELSE Return("nil")
    /\ UNCHANGED <<now, leaseVars, cpVars, cfgVars, md, ctx, ms, fan, idx, polls, held,
                   result, exitCode, calls, launches, trace>>

\* return fmt.Errorf("error acquiring leases on all machines")
AcquireLeasesFailed ==
    /\ pc = "acq_cleanup"
    /\ Return("error acquiring leases")
    /\ UNCHANGED <<now, leaseVars, cpVars, cfgVars, md, ctx, ms, fan, idx, polls, held,
                   result, exitCode, calls, launches, trace>>

\* a ReleaseLeases that never replaces the context
ContextWasAlreadyCanceledNever == FALSE

\* contextWasAlreadyCanceled := errors.Is(ctx.Err(), context.Canceled)
ContextWasAlreadyCanceled == ctx = "canceled"

\* ReleaseLeases: the context is replaced if canceled, the workers started
ReleaseLeases ==
    /\ pc = "ReleaseLeases"
    /\ fan' = [NoFan EXCEPT !.todo = Range(ms), !.wg = Len(ms),
                            !.wasCanceled = ContextWasAlreadyCanceled]
    /\ pc' = "rel_collect"
    /\ UNCHANGED <<now, leaseVars, cpVars, cfgVars, md, ctx, stack, ms, idx, polls, ret, held,
                   result, exitCode, calls, launches, trace>>

\* the errors flapsClient.ReleaseLease can return under ReleaseLeases' context
ReleaseErrs == IF fan.wasCanceled THEN TimedApiErrs("live") ELSE ApiErrs(ctx)

\* one worker: results <- m.ReleaseLease(ctx); wg.Done()
ReleaseWorker(lm) ==
    /\ pc = "rel_collect"
    /\ lm \in fan.todo
    /\ ~SendBlocks
    /\ \E err \in ReleaseErrs :
          /\ ReleaseLease(lm, err)
          /\ fan' = [fan EXCEPT !.todo = @ \ {lm},
                                !.results = Append(@, ReleaseLeaseErr(lm, err)),
                                !.wg = @ - 1,
                                !.failed = IF ReleaseLeaseErr(lm, err) # "nil"
                                           THEN @ + 1 ELSE @,
                                !.errs = @ \cup ({ReleaseLeaseErr(lm, err)} \ {"nil"})]
    /\ UNCHANGED <<now, machine, cpVars, cfgVars, md, ctx, pc, stack, ms, idx, polls, ret, held,
                   result, exitCode, launches, trace>>

\* the mutation: every error of a member counts
ReleaseErrorCountsAlways(err, wasCanceled) == err # "nil"

\* a member's error counts unless the context was canceled and the error is
\* a context error
ReleaseErrorCounts(err, wasCanceled) ==
    err # "nil" /\ (~wasCanceled \/ err \notin {"deadline", "canceled"})

\* for err := range results, in ReleaseLeases
ReleaseCollect ==
    /\ pc = "rel_collect"
    /\ fan.results # <<>>
    /\ fan' = [fan EXCEPT !.results = Tail(@),
                          !.hadError = @ \/ ReleaseErrorCounts(Head(fan.results),
                                                               fan.wasCanceled)]
    /\ UNCHANGED <<now, leaseVars, cpVars, cfgVars, md, ctx, pc, stack, ms, idx, polls, ret, held,
                   result, exitCode, calls, launches, trace>>

ReleaseLeasesCollected ==
    /\ pc = "rel_collect"
    /\ fan.results = <<>>
    /\ fan.closed
    /\ Return(IF fan.hadError THEN "error releasing leases" ELSE "nil")
    /\ UNCHANGED <<now, leaseVars, cpVars, cfgVars, md, ctx, ms, fan, idx, polls, held,
                   result, exitCode, calls, launches, trace>>

\* ------------------------------------------------------- polling handlers
Entry(op, lm, arg, res) == [op |-> op, lm |-> lm, arg |-> arg, res |-> res]

\* the call is entered in the trace at its first attempt ("running" until it
\* returns) and its result filled in when it returns
Traced(e) ==
    trace' = IF polls = 0 THEN Append(trace, e) ELSE [trace EXCEPT ![Len(trace)] = e]

\* the mutation: every error of flapsClient.Wait is returned
WaitForStateReturnsAlways(err) == TRUE

\* one pass of WaitForState's loop, flapsClient.Wait returning err: a context
\* error is returned, any other error retried, nil returned
WaitForStateReturns(err) == err # "other"

WaitForState(lm, desiredState, err) ==
    IF WaitForStateReturns(err)
    THEN /\ Traced(Entry("WaitForState", lm, desiredState, err))
         /\ polls' = 0
    ELSE /\ polls < MaxPolls
         /\ Traced(Entry("WaitForState", lm, desiredState, "running"))
         /\ polls' = polls + 1

\* what one pass of WaitForHealthchecksToPass can see: an error of
\* flapsClient.Get, or a machine whose checks are or are not all passing
HealthOutcomes == (TimedApiErrs(ctx) \ {"nil"}) \cup
                  (IF ctx = "live" THEN {"passing", "failing"} ELSE {})

WaitForHealthchecksReturns(lm, o) == machine[lm].checks = "nil" \/ o # "failing"

WaitForHealthchecksErr(lm, o) ==
    IF machine[lm].checks = "nil" \/ o = "passing" THEN "nil" ELSE o

WaitForHealthchecksToPass(lm, o) ==
    IF machine[lm].checks = "nil"
    THEN /\ Traced(Entry("WaitForHealthchecksToPass", lm, "no checks", "nil"))
         /\ polls' = 0
    ELSE IF o # "failing"
    THEN /\ Traced(Entry("WaitForHealthchecksToPass", lm, "get",
                         WaitForHealthchecksErr(lm, o)))
         /\ polls' = 0
    ELSE /\ polls < MaxPolls
         /\ Traced(Entry("WaitForHealthchecksToPass", lm, "get", "running"))
         /\ polls' = polls + 1

\* what one pass of WaitForEventTypeAfterType("exit", "start") can see: an
\* error of flapsClient.Get, no exit event after the last start event yet, an
\* exit event carrying an exit code, or one GetExitCode cannot read
NoExitCode == -1

EventOutcomes ==
    {[err |-> e, event |-> FALSE, code |-> NoExitCode] : e \in TimedApiErrs(ctx) \ {"nil"}}
    \cup (IF ctx = "live"
          THEN {[err |-> "nil", event |-> FALSE, code |-> NoExitCode]}
               \cup {[err |-> "nil", event |-> TRUE, code |-> c] :
                        c \in ExitCodes \cup {NoExitCode}}
          ELSE {})

\* the mutation: only a negative exit code counts as a failure
ExitCodeFailsIfNegative(code) == code < 0

\* if exitCode != 0
ExitCodeFails(code) == code # 0

\* ------------------------------------------------------ runReleaseCommand
NilMachine == -1

\* resolveUpdatedMachineConfig reads origMachineRaw.ID and .Config: a nil
\* origMachineRaw is a nil-pointer panic
resolveUpdatedMachineConfig(processGroup, origMachineRaw) ==
    [panic |-> origMachineRaw = NilMachine,
     ID |-> origMachineRaw,
     processGroup |-> processGroup]

\* runReleaseCommand returns nil at once
SkipsReleaseCommand ==
    md.releaseCommand = "" \/ IsEmpty(md.releaseCommandMachine) \/ md.restartOnly

\* return fmt.Errorf("release command failed - aborting deployment. %w", err)
ReleaseCommandFailed ==
    /\ result' = "release command failed"
    /\ pc' = "done"

RunReleaseCommand ==
    /\ pc = "runReleaseCommand"
    /\ IF SkipsReleaseCommand
       THEN /\ pc' = "dma_check_empty"
            /\ UNCHANGED result
       ELSE IF IsEmpty(md.releaseCommandMachine)
       THEN \* createReleaseCommandMachine
            IF resolveUpdatedMachineConfig("release_command", NilMachine).panic
            THEN result' = "panic" /\ pc' = "done"
            ELSE ReleaseCommandFailed
       ELSE \* updateReleaseCommandMachine
            /\ pc' = "urc_wait_stopped"
            /\ UNCHANGED result
    /\ UNCHANGED <<now, leaseVars, cpVars, cfgVars, md, ctx, stack, ms, fan, idx, polls, ret, held,
                   exitCode, calls, launches, trace>>

\* updateReleaseCommandMachine: WaitForState(stopped), then AcquireLeases
UrcWaitStopped ==
    /\ pc = "urc_wait_stopped"
    /\ \E err \in TimedApiErrs(ctx) :
          /\ WaitForState(RC, "stopped", err)
          /\ IF ~WaitForStateReturns(err)
             THEN UNCHANGED <<pc, stack, ms, result>>
             ELSE IF err # "nil"
             THEN ReleaseCommandFailed /\ UNCHANGED <<stack, ms>>
             ELSE /\ ms' = md.releaseCommandMachine
                  /\ Call("AcquireLeases", "urc_acquired")
                  /\ UNCHANGED result
    /\ UNCHANGED <<now, leaseVars, cpVars, cfgVars, md, ctx, fan, idx, ret, held,
                   exitCode, calls, launches>>

\* an updateReleaseCommandMachine that returns without releasing the lease
UrcDeferredSkipped == pc' = "urc_return" /\ UNCHANGED stack

\* defer func() { _ = md.releaseCommandMachine.ReleaseLeases(ctx) }()
UrcDeferred == Call("ReleaseLeases", "urc_return")

\* updateReleaseCommandMachine after AcquireLeases: the deferred ReleaseLeases
\* is registered, then the error returned or the machine updated
UrcAcquired ==
    /\ pc = "urc_acquired"
    /\ IF ret # "nil"
       THEN /\ held' = ret
            /\ UrcDeferred
       ELSE /\ pc' = "urc_update"
            /\ UNCHANGED <<held, stack>>
    /\ UNCHANGED <<now, leaseVars, cpVars, cfgVars, md, ctx, ms, fan, idx, polls, ret,
                   result, exitCode, calls, launches, trace>>

UrcUpdate ==
    /\ pc = "urc_update"
    /\ \E resp \in UpdateResponses :
          LET in == resolveUpdatedMachineConfig("release_command", RC)
              err == UpdateErr(RC, resp)
          IN  /\ Update(RC, resp)
              /\ trace' = Append(trace, Entry("Update", RC, in.processGroup, err))
              /\ held' = IF err # "nil" THEN "error updating release_command machine"
                         ELSE "nil"
    /\ UrcDeferred
    /\ UNCHANGED <<now, leaseNonce, leaseExpiration, cpVars, cfgVars, md, ctx, ms, fan, idx, polls,
                   ret, result, exitCode, launches>>

\* the deferred ReleaseLeases has run: createOrUpdateReleaseCmdMachine returns
UrcReturn ==
    /\ pc = "urc_return"
    /\ IF held # "nil"
       THEN ReleaseCommandFailed
       ELSE pc' = "rc_wait_started" /\ UNCHANGED result
    /\ held' = "nil"
    /\ UNCHANGED <<now, leaseVars, cpVars, cfgVars, md, ctx, stack, ms, fan, idx, polls, ret,
                   exitCode, calls, launches, trace>>

\* the mutation: runReleaseCommand goes on after a wait that failed
RcWaitFailedNever(err) == FALSE

\* if err != nil { return fmt.Errorf("error waiting for ...: %w", err) }
RcWaitFailed(err) == err # "nil"

\* releaseCmdMachine.WaitForState(ctx, api.MachineStateStarted, md.waitTimeout)
RcWaitStarted ==
    /\ pc = "rc_wait_started"
    /\ \E err \in TimedApiErrs(ctx) :
          /\ WaitForState(RC, "started", err)
          /\ IF ~WaitForStateReturns(err) THEN UNCHANGED <<pc, result>>
             ELSE IF RcWaitFailed(err) THEN ReleaseCommandFailed
             ELSE pc' = "rc_wait_stopped" /\ UNCHANGED result
    /\ UNCHANGED <<now, leaseVars, cpVars, cfgVars, md, ctx, stack, ms, fan, idx, ret, held,
                   exitCode, calls, launches>>

\* releaseCmdMachine.WaitForState(ctx, api.MachineStateStopped, md.waitTimeout)
RcWaitStopped ==
    /\ pc = "rc_wait_stopped"
    /\ \E err \in TimedApiErrs(ctx) :
          /\ WaitForState(RC, "stopped", err)
          /\ IF ~WaitForStateReturns(err) THEN UNCHANGED <<pc, result>>
             ELSE IF RcWaitFailed(err) THEN ReleaseCommandFailed
             ELSE pc' = "rc_wait_exit" /\ UNCHANGED result
    /\ UNCHANGED <<now, leaseVars, cpVars, cfgVars, md, ctx, stack, ms, fan, idx, ret, held,
                   exitCode, calls, launches>>

\* WaitForEventTypeAfterType(ctx, "exit", "start"), GetExitCode, exitCode != 0
RcWaitExit ==
    /\ pc = "rc_wait_exit"
    /\ \E o \in EventOutcomes :
          IF RcWaitFailed(o.err)
          THEN /\ Traced(Entry("WaitForEventTypeAfterType", RC, "exit", o.err))
               /\ polls' = 0
               /\ ReleaseCommandFailed
               /\ UNCHANGED exitCode
          ELSE IF ~o.event
          THEN /\ polls < MaxPolls
               /\ Traced(Entry("WaitForEventTypeAfterType", RC, "exit", "running"))
               /\ polls' = polls + 1
               /\ UNCHANGED <<pc, result, exitCode>>
          ELSE /\ Traced(Entry("WaitForEventTypeAfterType", RC, "exit", "nil"))
               /\ polls' = 0
               /\ exitCode' = o.code
               /\ IF o.code = NoExitCode \/ ExitCodeFails(o.code)
                  THEN ReleaseCommandFailed
                  ELSE pc' = "dma_check_empty" /\ UNCHANGED result
    /\ UNCHANGED <<now, leaseVars, cpVars, cfgVars, md, ctx, stack, ms, fan, idx, ret, held,
                   calls, launches>>

\* ------------------------------------------------------ DeployMachinesApp
\* the machine flapsClient.Launch returns to createOneMachine
NewMachine == MaxMachines + 1

\* if md.machineSet.IsEmpty() { return md.createOneMachine(ctx) }
CreateOneMachine ==
    /\ pc = "dma_check_empty"
    /\ IsEmpty(md.machineSet)
    /\ LET launchInput == resolveUpdatedMachineConfig("release_command", NilMachine)
       IN  IF launchInput.panic
           THEN /\ result' = "panic"
                /\ UNCHANGED <<launches, trace>>
           ELSE \E l \in ApiErrs(ctx), w \in TimedApiErrs(ctx) \ {"other"},
                   h \in HealthOutcomes \ {"failing"} :
                LET waits == l = "nil" /\ md.strategy # "immediate"
                    checks == waits /\ w = "nil" /\ ~md.skipHealthChecks
                    herr == IF h = "passing" THEN "nil" ELSE h
                IN  /\ launches' = Append(launches, launchInput.processGroup)
                    /\ trace' = trace
                          \o (IF waits
                              THEN <<Entry("WaitForState", NewMachine, "started", w)>>
                              ELSE <<>>)
                          \o (IF checks
                              THEN <<Entry("WaitForHealthchecksToPass", NewMachine,
                                           "get", herr)>>
                              ELSE <<>>)
                    /\ result' = IF l # "nil" THEN "error creating a new machine"
                                 ELSE IF waits /\ w # "nil" THEN w
                                 ELSE IF checks THEN herr
                                 ELSE "nil"
    /\ pc' = "done"
    /\ UNCHANGED <<now, leaseVars, cpVars, cfgVars, md, ctx, stack, ms, fan, idx, polls, ret, held,
                   exitCode, calls>>

\* err = md.machineSet.AcquireLeases(ctx, md.leaseTimeout)
DmaAcquireLeases ==
    /\ pc = "dma_check_empty"
    /\ ~IsEmpty(md.machineSet)
    /\ ms' = md.machineSet
    /\ Call("AcquireLeases", "dma_acquired")
    /\ UNCHANGED <<now, leaseVars, cpVars, cfgVars, md, ctx, fan, idx, polls, ret, held,
                   result, exitCode, calls, launches, trace>>

\* where a return after the deferred ReleaseLeases was registered goes
DeferredReturnSkipped == "dma_return"

DeferredReturn == "dma_defer"

\* return err, from inside the loop
LoopAbort(err) ==
    /\ held' = err
    /\ pc' = DeferredReturn
    /\ UNCHANGED idx

\* the loop body ended: the next machine, or return nil after the loop
LoopNext ==
    IF idx < Len(md.machineSet)
    THEN /\ idx' = idx + 1
         /\ pc' = "dma_update"
         /\ UNCHANGED held
    ELSE /\ held' = "nil"
         /\ pc' = DeferredReturn
         /\ UNCHANGED idx

\* the mutation: the error of AcquireLeases is dropped
ReturnsAcquireErrorNever == FALSE

\* if err != nil { return err }, after md.machineSet.AcquireLeases
ReturnsAcquireError == ret # "nil"

\* AcquireLeases returned: the deferred ReleaseLeases is registered, then
\* if err != nil { return err }
DmaAcquired ==
    /\ pc = "dma_acquired"
    /\ trace' = Append(trace, Entry("AcquireLeases", NilMachine, "app", ret))
    /\ IF ReturnsAcquireError
       THEN /\ held' = ret
            /\ pc' = DeferredReturn
            /\ UNCHANGED idx
       ELSE /\ idx' = 1
            /\ pc' = "dma_update"
            /\ UNCHANGED held
    /\ UNCHANGED <<now, leaseVars, cpVars, cfgVars, md, ctx, stack, ms, fan, polls, ret,
                   result, exitCode, calls, launches>>

\* the mutations: every strategy returns an Update error; no strategy does
StopsOnUpdateErrorAlways == TRUE

StopsOnUpdateErrorNever == FALSE

\* if err != nil { if md.strategy != "immediate" { return err } ... }
StopsOnUpdateError == md.strategy # "immediate"

\* the mutation: the loop never waits for the machine to start
WaitsForStartNever == FALSE

\* if md.strategy != "immediate" { err := m.WaitForState(...) ... }
WaitsForStart == md.strategy # "immediate"

\* the mutation: skipHealthChecks is ignored
WaitsForHealthchecksAlways == TRUE

\* if md.strategy != "immediate" && !md.skipHealthChecks { ... }
WaitsForHealthchecks == md.strategy # "immediate" /\ ~md.skipHealthChecks

\* err := m.Update(ctx, *launchInput), and what the strategy makes of err
DmaUpdate ==
    /\ pc = "dma_update"
    /\ \E resp \in UpdateResponses :
          LET lm == md.machineSet[idx]
              launchInput == resolveUpdatedMachineConfig("app", lm)
              err == UpdateErr(lm, resp)
          IN  /\ Update(lm, resp)
              /\ trace' = Append(trace, Entry("Update", lm, launchInput.processGroup, err))
              /\ IF err # "nil" /\ StopsOnUpdateError THEN LoopAbort(err)
                 ELSE IF WaitsForStart
                 THEN pc' = "dma_wait_started" /\ UNCHANGED <<idx, held>>
                 ELSE IF WaitsForHealthchecks
                 THEN pc' = "dma_wait_health" /\ UNCHANGED <<idx, held>>
                 ELSE LoopNext
    /\ UNCHANGED <<now, leaseNonce, leaseExpiration, cpVars, cfgVars, md, ctx, stack, ms, fan, polls,
                   ret, result, exitCode, launches>>

\* err := m.WaitForState(ctx, api.MachineStateStarted, md.waitTimeout)
DmaWaitStarted ==
    /\ pc = "dma_wait_started"
    /\ \E err \in TimedApiErrs(ctx) :
          /\ WaitForState(md.machineSet[idx], "started", err)
          /\ IF ~WaitForStateReturns(err) THEN UNCHANGED <<pc, idx, held>>
             ELSE IF err # "nil" THEN LoopAbort(err)
             ELSE IF WaitsForHealthchecks
             THEN pc' = "dma_wait_health" /\ UNCHANGED <<idx, held>>
             ELSE LoopNext
    /\ UNCHANGED <<now, leaseVars, cpVars, cfgVars, md, ctx, stack, ms, fan, ret,
                   result, exitCode, calls, launches>>

\* err := m.WaitForHealthchecksToPass(ctx, md.waitTimeout)
DmaWaitHealth ==
    /\ pc = "dma_wait_health"
    /\ \E o \in HealthOutcomes :
          LET lm == md.machineSet[idx]
          IN  /\ WaitForHealthchecksToPass(lm, o)
              /\ IF ~WaitForHealthchecksReturns(lm, o) THEN UNCHANGED <<pc, idx, held>>
                 ELSE IF WaitForHealthchecksErr(lm, o) # "nil"
                 THEN LoopAbort(WaitForHealthchecksErr(lm, o))
                 ELSE LoopNext
    /\ UNCHANGED <<now, leaseVars, cpVars, cfgVars, md, ctx, stack, ms, fan, ret,
                   result, exitCode, calls, launches>>

\* the deferred func: err := md.machineSet.ReleaseLeases(ctx)
DmaDeferred ==
    /\ pc = "dma_defer"
    /\ ms' = md.machineSet
    /\ Call("ReleaseLeases", "dma_released")
    /\ UNCHANGED <<now, leaseVars, cpVars, cfgVars, md, ctx, fan, idx, polls, ret, held,
                   result, exitCode, calls, launches, trace>>

\* the deferred func ended (its error is only logged)
DmaReleased ==
    /\ pc = "dma_released"
    /\ trace' = Append(trace, Entry("ReleaseLeases", NilMachine, "app", ret))
    /\ pc' = "dma_return"
    /\ UNCHANGED <<now, leaseVars, cpVars, cfgVars, md, ctx, stack, ms, fan, idx, polls, ret, held,
                   result, exitCode, calls, launches>>

\* the mutation: an error of the deferred ReleaseLeases replaces the result
DeferredResultOverridden(err, releaseErr) == IF releaseErr # "nil" THEN releaseErr ELSE err

\* what DeployMachinesApp returns once the deferred func ran: the func keeps
\* the error of ReleaseLeases in a variable of its own, warns and drops it
DeferredResult(err, releaseErr) == err

\* DeployMachinesApp returns
DmaReturn ==
    /\ pc = "dma_return"
    /\ result' = DeferredResult(held, ret)
    /\ pc' = "done"
    /\ UNCHANGED <<now, leaseVars, cpVars, cfgVars, md, ctx, stack, ms, fan, idx, polls, ret, held,
                   exitCode, calls, launches, trace>>

\* ------------------------------------------------------------ environment
\* time passes while the deployment runs
Tick ==
    /\ pc # "done"
    /\ now < MaxTime
    /\ now' = now + 1
    /\ UNCHANGED <<leaseVars, cpVars, cfgVars, depVars>>

\* the context given to DeployMachinesApp is canceled or passes its deadline
Cancel ==
    /\ pc # "done"
    /\ ctx = "live"
    /\ ctx' \in {"canceled", "deadline"}
    /\ UNCHANGED <<now, leaseVars, cpVars, cfgVars, md, pc, stack, ms, fan, idx, polls, ret, held,
                   result, exitCode, calls, launches, trace>>

\* the deployments setMachinesForDeployment and the flags can set up
Deployments ==
    [strategy : Strategies, skipHealthChecks : BOOLEAN, restartOnly : BOOLEAN,
     releaseCommand : {"", "migrate"},
     machineSet : {SeqTo(n) : n \in 0..MaxMachines},
     releaseCommandMachine : {<<>>, <<RC>>}]

Init ==
    /\ now = StartTime
    /\ leaseNonce = [lm \in LMs |-> ""]
    /\ leaseExpiration = [lm \in LMs |-> ZeroTime]
    /\ machine = [lm \in LMs |-> OrigMachine]
    /\ cpLease = NoCPLease
    /\ cpGrants = 0
    /\ inflight = [r \in Rollouts |-> NoCall]
    /\ last = [r \in Rollouts |-> NoReturn]
    /\ NoConfig
    /\ md \in Deployments
    /\ ctx = "live"
    /\ pc = "runReleaseCommand"
    /\ stack = <<>>
    /\ ms = <<>>
    /\ fan = NoFan
    /\ idx = 0
    /\ polls = 0
    /\ ret = "nil"
    /\ held = "nil"
    /\ result = "pending"
    /\ exitCode = NoExitCode
    /\ calls = [lm \in LMs |-> NoCalls]
    /\ launches = <<>>
    /\ trace = <<>>

Next ==
    \/ RunReleaseCommand
    \/ UrcWaitStopped
    \/ UrcAcquired
    \/ UrcUpdate
    \/ UrcReturn
    \/ RcWaitStarted
    \/ RcWaitStopped
    \/ RcWaitExit
    \/ CreateOneMachine
    \/ DmaAcquireLeases
    \/ DmaAcquired
    \/ DmaUpdate
    \/ DmaWaitStarted
    \/ DmaWaitHealth
    \/ DmaDeferred
    \/ DmaReleased
    \/ DmaReturn
    \/ AcquireLeases
    \/ \E lm \in LMs : AcquireWorker(lm)
    \/ CloseResults
    \/ AcquireCollect
    \/ AcquireLeasesCollected
    \/ AcquireLeasesFailed
    \/ ReleaseLeases
    \/ \E lm \in LMs : ReleaseWorker(lm)
    \/ ReleaseCollect
    \/ ReleaseLeasesCollected
    \/ Tick
    \/ Cancel

Spec == Init /\ [][Next]_vars

\* ------------------------------------------------------- reading the trace
AppMachines == Range(md.machineSet)

IsAppUpdate(e) == e.op = "Update" /\ e.arg = "app"

AppUpdates == SelectSeq(trace, IsAppUpdate)

\* md.machineSet.AcquireLeases has returned, with nil
AppAcquireReturned == \E i \in 1..Len(trace) : trace[i].op = "AcquireLeases"

AppLeasesAcquired ==
    \E i \in 1..Len(trace) : trace[i] = Entry("AcquireLeases", NilMachine, "app", "nil")

\* AcquireLeases has just returned to its caller
AtAcquireReturn == pc \in {"urc_acquired", "dma_acquired"}

\* the place of an app machine in collection order
IndexOf(lm) == CHOOSE i \in 1..Len(md.machineSet) : md.machineSet[i] = lm

\* ------------------------------------------------------------------ C2
\* C2: for a MachineSet of N members and any interleaving of the per-member
\* AcquireLease calls, if at least one member's acquisition fails then
\* AcquireLeases returns an error, and at the moment it returns an error
\* HasLease() is false for every member, those whose acquisition succeeded
\* included.
C2_AllOrNothing ==
    AtAcquireReturn =>
        /\ ret = "nil" => fan.failed = 0
        /\ ret # "nil" => \A lm \in Range(ms) : ~HasLease(lm)

\* AcquireLeases of two app machines returned an error after one member had
\* acquired its lease and been made to release it
C2_Witness ==
    /\ pc = "dma_acquired"
    /\ ret # "nil"
    /\ Len(ms) = 2
    /\ \E lm \in Range(ms) : calls[lm].acquire > 0 /\ calls[lm].release > 0

\* ------------------------------------------------------------------ C3
\* C3: if the release command runs and exits with a non-zero code,
\* DeployMachinesApp returns an error and no lease acquisition, update or
\* create call is ever issued for any app VM in that run.
C3_ReleaseCommandGate ==
    (exitCode # NoExitCode /\ exitCode # 0) =>
        /\ pc = "done"
        /\ result = "release command failed"
        /\ launches = <<>>
        /\ \A lm \in AppMachines : calls[lm] = NoCalls
        /\ \A i \in 1..Len(trace) : trace[i].lm = RC

\* the release command of a deployment with two app machines exited with 7
C3_Witness ==
    /\ exitCode = 7
    /\ Len(md.machineSet) = 2
    /\ pc = "done"

\* ------------------------------------------------------------------ C4
\* C4: under the "immediate" strategy, once the leases of a populated fleet
\* were acquired, an error of Update on a VM does not stop the rollout:
\* Update is attempted on every VM in collection order and
\* DeployMachinesApp returns nil.
C4_ImmediateContinues ==
    (md.strategy = "immediate" /\ AppLeasesAcquired) =>
        /\ Len(AppUpdates) <= Len(md.machineSet)
        /\ \A i \in 1..Len(AppUpdates) : AppUpdates[i].lm = md.machineSet[i]
        /\ pc = "done" =>
              /\ result = "nil"
              /\ Len(AppUpdates) = Len(md.machineSet)

\* an immediate rollout of two machines ended after Update failed on the first
C4_Witness ==
    /\ md.strategy = "immediate"
    /\ pc = "done"
    /\ Len(AppUpdates) = 2
    /\ AppUpdates[1].res # "nil"

\* ------------------------------------------------------------------ C5
\* C5: under a strategy other than "immediate", when Update on VM k returns
\* an error, DeployMachinesApp returns that error and no update,
\* wait-for-state or health-check call is issued for any VM after k.
C5_NonImmediateAborts ==
    \A k \in 1..Len(trace) :
        (md.strategy # "immediate" /\ IsAppUpdate(trace[k]) /\ trace[k].res # "nil") =>
            /\ \A j \in (k + 1)..Len(trace) : trace[j].op = "ReleaseLeases"
            /\ pc \notin {"dma_update", "dma_wait_started", "dma_wait_health"}
            /\ \A lm \in AppMachines :
                  IndexOf(lm) > IndexOf(trace[k].lm) => calls[lm].update = 0
            /\ pc = "done" => result = trace[k].res

\* a rolling rollout of two machines ended after Update failed on the first
C5_Witness ==
    /\ md.strategy = "rolling"
    /\ pc = "done"
    /\ Len(md.machineSet) = 2
    /\ Len(AppUpdates) = 1
    /\ AppUpdates[1].lm = md.machineSet[1]
    /\ AppUpdates[1].res # "nil"

\* ------------------------------------------------------------------ C6
\* C6: in the populated-fleet phase, on every way DeployMachinesApp returns
\* after AcquireLeases was called, ReleaseLeases has run on the app
\* MachineSet before the return: HasLease() is false for every app VM
\* afterwards, and a release call was issued for every lease that was still
\* unexpired when its ReleaseLease ran.
C6_ReleasedAtReturn ==
    (pc = "done" /\ AppAcquireReturned) =>
        /\ trace[Len(trace)].op = "ReleaseLeases"
        /\ \A lm \in AppMachines : ~HasLease(lm)

\* a worker of the deferred ReleaseLeases that finds a lease unexpired issues
\* flapsClient.ReleaseLease
C6_ReleaseCallIssued ==
    \A lm \in LMs :
        (ReleaseWorker(lm) /\ Head(stack) = "dma_released" /\ HasLease(lm)) =>
            calls'[lm].release = calls[lm].release + 1

\* C6: both parts, the state at the return and the release call of each worker
\* of the deferred ReleaseLeases
C6_DeferredRelease == [](C6_ReleasedAtReturn) /\ [][C6_ReleaseCallIssued]_vars

\* DeployMachinesApp returned a context cancellation after the deferred
\* ReleaseLeases had issued a release call for an app machine
C6_Witness ==
    /\ pc = "done"
    /\ result = "canceled"
    /\ AppLeasesAcquired
    /\ \E lm \in AppMachines : calls[lm].release > 0

\* ------------------------------------------------------------------ C7
\* what must come just before the call trace[q] of a non-immediate rollout,
\* where healthWait says whether a health-check wait ends each VM's sequence
PrecededInOrder(q, healthWait) ==
    LET e == trace[q]
        p == trace[q - 1]
    IN  CASE e.op = "Update" ->
                 IndexOf(e.lm) > 1 =>
                     /\ p.lm = md.machineSet[IndexOf(e.lm) - 1]
                     /\ p.res = "nil"
                     /\ p.op = IF healthWait THEN "WaitForHealthchecksToPass"
                               ELSE "WaitForState"
          [] e.op = "WaitForState" ->
                 p.op = "Update" /\ p.lm = e.lm /\ p.res = "nil"
          [] e.op = "WaitForHealthchecksToPass" ->
                 p.op = "WaitForState" /\ p.lm = e.lm /\ p.res = "nil"
          [] OTHER -> TRUE

\* C7 as stated: under a non-"immediate" strategy no call (update,
\* wait-for-started, health check) is issued for VM N+1 until VM N's update,
\* wait-for-started and health-check wait have all completed successfully,
\* and each VM's update precedes its wait-for-started, which precedes its
\* health-check wait.
C7_StrictlySequential ==
    md.strategy # "immediate" =>
        \A q \in 1..Len(trace) :
            trace[q].lm \in AppMachines => PrecededInOrder(q, TRUE)

\* C7, amended: under a non-"immediate" strategy no call is issued for VM
\* N+1 until VM N's update, its wait-for-started and, when health checks
\* are not skipped, its health-check wait have all completed successfully;
\* each VM's update precedes its wait-for-started, which precedes its
\* health-check wait.
C7_SequentialUpToSkippedChecks ==
    md.strategy # "immediate" =>
        \A q \in 1..Len(trace) :
            trace[q].lm \in AppMachines => PrecededInOrder(q, ~md.skipHealthChecks)

\* the second machine of a rolling rollout is updated after the first one's
\* health checks were polled and passed
C7_Witness ==
    /\ md.strategy = "rolling"
    /\ ~md.skipHealthChecks
    /\ Len(AppUpdates) = 2
    /\ \E q \in 1..Len(trace) :
          trace[q] = Entry("WaitForHealthchecksToPass", md.machineSet[1], "get", "nil")

\* ------------------------------------------------------------------ C8
\* C8: when a release command is configured, restart-only mode is off and
\* no release-command VM exists yet, the release-command phase creates a
\* release-command VM (a Launch call), runs it, and gates on its exit code
\* before any app VM is touched.
C8_ReleaseCommandMachineCreated ==
    (/\ md.releaseCommand # ""
     /\ ~md.restartOnly
     /\ IsEmpty(md.releaseCommandMachine)
     /\ pc # "runReleaseCommand") =>
        /\ launches # <<>>
        /\ launches[1] = "release_command"
        /\ (pc \notin {"done"} \/ result # "release command failed") => exitCode = 0

\* ------------------------------------------------------------------ C9
\* C9: when the app MachineSet is empty, DeployMachinesApp issues exactly
\* one create (Launch) call, for a VM whose process group is "app", and
\* acquires no leases before it returns.
C9_EmptyFleetCreatesOne ==
    (/\ IsEmpty(md.machineSet)
     /\ pc = "done"
     /\ result # "release command failed") =>
        /\ launches = <<"app">>
        /\ \A lm \in LMs \ {RC} : calls[lm].acquire = 0

\* ============================================================ SpecMachine
\* One LeasableMachine whose methods are called one after another, each call
\* answered by flaps in any way it can, while time passes and the caller's
\* context may end.
MaxMachineTime == 9

\* what a deployment holds besides the machine under call
machineFrame ==
    <<cpVars, cfgVars, md, pc, stack, ms, fan, idx, polls, ret, held, result, exitCode, launches>>

\* flapsClient.AcquireLease can grant leases under different nonces
MachineAcquireResponses ==
    AcquireResponses \cup
    (IF ctx = "live"
     THEN {[err |-> "nil", Status |-> "success",
            Data |-> LeaseData("nonce2", now + LeaseTtl)]}
     ELSE {})

\* the record of a method call: what the lease fields were when it was made,
\* what flaps answered (in), what was sent to flaps, and the error returned
Called(op, lm, in, sent, res) ==
    [op |-> op, lm |-> lm, in |-> in, sent |-> sent, res |-> res,
     nonce |-> leaseNonce[lm], exp |-> leaseExpiration[lm], at |-> now,
     had |-> HasLease(lm)]

\* no call is under way: the last one's record was taken
Idle == trace = <<>>

MachineAcquireLease ==
    /\ Idle
    /\ \E resp \in MachineAcquireResponses :
          /\ AcquireLease(RC, resp)
          /\ trace' = <<Called("AcquireLease", RC, resp,
                               IF AcquireIsNoop(RC) THEN "no call" ELSE "acquire",
                               AcquireLeaseErr(RC, resp))>>
    /\ UNCHANGED <<now, machine, ctx, machineFrame>>

MachineReleaseLease ==
    /\ Idle
    /\ \E err \in ApiErrs(ctx) :
          /\ ReleaseLease(RC, err)
          /\ trace' = <<Called("ReleaseLease", RC, err, ReleaseNonceSent(RC),
                               ReleaseLeaseErr(RC, err))>>
    /\ UNCHANGED <<now, machine, ctx, machineFrame>>

MachineUpdate ==
    /\ Idle
    /\ \E resp \in UpdateResponses :
          /\ Update(RC, resp)
          /\ trace' = <<Called("Update", RC, resp,
                               IF HasLease(RC) THEN leaseNonce[RC] ELSE "no call",
                               UpdateErr(RC, resp))>>
    /\ UNCHANGED <<now, leaseNonce, leaseExpiration, ctx, machineFrame>>

MachineStart ==
    /\ Idle
    /\ \E err \in ApiErrs(ctx) :
          /\ Start(RC, err)
          /\ trace' = <<Called("Start", RC, err,
                               IF StartRefused(RC) THEN "no call" ELSE "start",
                               StartErr(RC, err))>>
    /\ UNCHANGED <<now, leaseVars, ctx, machineFrame>>

\* the caller has the result of the call and goes on
MachineReturned ==
    /\ ~Idle
    /\ trace' = <<>>
    /\ calls' = [lm \in {RC} |-> NoCalls]
    /\ UNCHANGED <<now, leaseVars, ctx, machineFrame>>

MachineTick ==
    /\ now < MaxMachineTime
    /\ now' = now + 1
    /\ UNCHANGED <<leaseVars, ctx, calls, trace, machineFrame>>

MachineCancel ==
    /\ ctx = "live"
    /\ ctx' \in {"canceled", "deadline"}
    /\ UNCHANGED <<now, leaseVars, calls, trace, machineFrame>>

InitMachine ==
    /\ now = StartTime
    /\ leaseNonce = [lm \in {RC} |-> ""]
    /\ leaseExpiration = [lm \in {RC} |-> ZeroTime]
    /\ machine = [lm \in {RC} |-> OrigMachine]
    /\ cpLease = NoCPLease
    /\ cpGrants = 0
    /\ inflight = [r \in Rollouts |-> NoCall]
    /\ last = [r \in Rollouts |-> NoReturn]
    /\ NoConfig
    /\ md = [strategy |-> "rolling", skipHealthChecks |-> FALSE, restartOnly |-> FALSE,
             releaseCommand |-> "", machineSet |-> <<>>, releaseCommandMachine |-> <<RC>>]
    /\ ctx = "live"
    /\ pc = "done"
    /\ stack = <<>>
    /\ ms = <<>>
    /\ fan = NoFan
    /\ idx = 0
    /\ polls = 0
    /\ ret = "nil"
    /\ held = "nil"
    /\ result = "pending"
    /\ exitCode = NoExitCode
    /\ calls = [lm \in {RC} |-> NoCalls]
    /\ launches = <<>>
    /\ trace = <<>>

NextMachine ==
    \/ MachineAcquireLease
    \/ MachineReleaseLease
    \/ MachineUpdate
    \/ MachineStart
    \/ MachineReturned
    \/ MachineTick
    \/ MachineCancel

SpecMachine == InitMachine /\ [][NextMachine]_vars

\* the record of the call that has just returned, if it is a call of op
JustCalled(op) == ~Idle /\ trace[1].op = op

\* ------------------------------------------------------------------ C11
\* C11: ReleaseLease on a lease whose expiresAt is more than 5 seconds in
\* the past clears the local lease and issues no release API call;
\* ReleaseLease on a lease with a non-empty nonce whose expiresAt is in the
\* future issues exactly one release API call, carrying the recorded nonce.
C11_ExpiryTolerance ==
    JustCalled("ReleaseLease") =>
        LET e == trace[1]
        IN  /\ (e.nonce # "" /\ e.at - e.exp > SkewTolerance) =>
                   /\ leaseNonce[RC] = ""
                   /\ leaseExpiration[RC] = ZeroTime
                   /\ calls[RC] = NoCalls
                   /\ e.sent = "no call"
            /\ (e.nonce # "" /\ e.exp > e.at) =>
                   /\ calls[RC] = [NoCalls EXCEPT !.release = 1]
                   /\ e.sent = e.nonce

\* a lease granted by flaps was released more than 5 seconds after it expired
C11_Witness ==
    /\ JustCalled("ReleaseLease")
    /\ trace[1].nonce # ""
    /\ trace[1].exp > StartTime
    /\ trace[1].at - trace[1].exp > SkewTolerance
    /\ trace[1].sent = "no call"

\* ------------------------------------------------------------------ C12
\* C12: after ReleaseLease returns on any path (no lease held, lease expired,
\* release API success, release API failure) the local lease is cleared:
\* the nonce is empty, the expiry is the zero time and HasLease() is false.
C12_ReleaseClears ==
    JustCalled("ReleaseLease") =>
        /\ leaseNonce[RC] = ""
        /\ leaseExpiration[RC] = ZeroTime
        /\ ~HasLease(RC)

\* ReleaseLease returned the error of a release API call that failed
C12_Witness ==
    /\ JustCalled("ReleaseLease")
    /\ trace[1].had
    /\ trace[1].res # "nil"
    /\ calls[RC].release = 1

\* ------------------------------------------------------------------ C13
\* C13: AcquireLease called while a non-expired lease is already held
\* locally returns success without calling the control plane and leaves the
\* nonce and the expiry unchanged.
C13_AcquireIsNoopUnderLease ==
    (JustCalled("AcquireLease") /\ trace[1].had) =>
        /\ trace[1].res = "nil"
        /\ trace[1].sent = "no call"
        /\ calls[RC] = NoCalls
        /\ leaseNonce[RC] = trace[1].nonce
        /\ leaseExpiration[RC] = trace[1].exp

\* AcquireLease was called under a held lease while flaps would have granted
\* another one
C13_Witness ==
    /\ JustCalled("AcquireLease")
    /\ trace[1].had
    /\ trace[1].in.err = "nil"
    /\ trace[1].in.Data.present
    /\ trace[1].in.Data.Nonce \notin {"", trace[1].nonce}

\* ------------------------------------------------------------------ C14
\* the response is a rejection or is malformed
Malformed(resp) ==
    \/ resp.Status # "success"
    \/ ~resp.Data.present
    \/ resp.Data.Nonce = ""
    \/ resp.Data.ExpiresAt = ZeroTime

\* C14: AcquireLease returns an error whenever the control plane rejects the
\* request or the response is malformed (status not success, data missing,
\* nonce empty or expiry missing), and on every such error the local nonce
\* and expiry are left unchanged.
C14_RejectsMalformed ==
    (JustCalled("AcquireLease") /\ ~trace[1].had /\ Malformed(trace[1].in)) =>
        /\ trace[1].res # "nil"
        /\ leaseNonce[RC] = trace[1].nonce
        /\ leaseExpiration[RC] = trace[1].exp

\* ------------------------------------------------------------------ C19
\* C19: Start called while a lease is held on the VM returns an error and
\* issues no start call to the control plane.
C19_StartRefusedUnderLease ==
    (JustCalled("Start") /\ trace[1].had) =>
        /\ trace[1].res # "nil"
        /\ trace[1].sent = "no call"
        /\ calls[RC] = NoCalls

\* Start was called under a held lease while flaps would have started the VM
C19_Witness ==
    /\ JustCalled("Start")
    /\ trace[1].had
    /\ trace[1].in = "nil"

\* ------------------------------------------------------------------ C15
\* the fresh context of ReleaseLeases is in use
UsesFreshContext(f) == f.wasCanceled

\* C15: when the context passed to ReleaseLeases is already canceled, every
\* member's ReleaseLease is invoked with a fresh context that is not yet
\* done, so a release API call is still attempted for every member holding
\* an unexpired lease.
C15_FreshContextWhenCanceled ==
    [][/\ (ReleaseLeases /\ ctx = "canceled") => UsesFreshContext(fan')
       /\ \A lm \in LMs :
             (ReleaseWorker(lm) /\ UsesFreshContext(fan) /\ HasLease(lm)) =>
                 /\ calls'[lm].release = calls[lm].release + 1
                 /\ fan'.results[Len(fan'.results)] # "canceled"]_vars

\* under a canceled context every member of a set of two was released by an
\* API call that succeeded
C15_Witness ==
    /\ pc = "rel_collect"
    /\ ctx = "canceled"
    /\ UsesFreshContext(fan)
    /\ Len(ms) = 2
    /\ fan.todo = {}
    /\ fan.failed = 0
    /\ \A lm \in Range(ms) : calls[lm].release > 0

\* ------------------------------------------------------------------ C16
\* C16: when the deployment's own context has expired (deadline exceeded,
\* not explicitly canceled) before ReleaseLeases is called, lease cleanup is
\* still attempted under a fresh short-lived context and not under the
\* expired one.
C16_FreshContextWhenExpired ==
    [][(ReleaseLeases /\ ctx = "deadline") => UsesFreshContext(fan')]_vars

\* ------------------------------------------------------------------ C17
\* the release-command machine is past updateReleaseCommandMachine
PastReleaseCommandUpdate ==
    \/ pc \in {"rc_wait_started", "rc_wait_stopped", "rc_wait_exit", "dma_check_empty"}
    \/ pc = "done" /\ calls[RC].acquire > 0

\* C17: when a release-command VM already exists, the release-command phase
\* waits for it to reach stopped, acquires a lease on it, issues the update
\* with the release-command overrides while the lease is held and releases
\* the lease, in this order; the lease is released on every exit of this
\* step (acquire or update failure included) and before the wait for
\* started begins.
C17_UpdateReleaseCommandMachine ==
    /\ calls[RC].acquire > 0 =>
           /\ trace # <<>>
           /\ trace[1] = Entry("WaitForState", RC, "stopped", "nil")
    /\ pc = "urc_update" =>
           /\ ret = "nil"
           /\ calls[RC] = [NoCalls EXCEPT !.acquire = 1]
           /\ Len(trace) = 1
    /\ \A q \in 1..Len(trace) :
           (trace[q].op = "Update" /\ trace[q].lm = RC) =>
               /\ q = 2
               /\ trace[q].arg = "release_command"
               /\ calls[RC].acquire = 1
               /\ trace[q].res = "nil" => calls[RC].update = 1
    /\ \A q \in 1..Len(trace) :
           trace[q] = Entry("WaitForState", RC, "started", trace[q].res)
               => calls[RC].acquire > 0 /\ leaseNonce[RC] = ""
    /\ PastReleaseCommandUpdate =>
           /\ leaseNonce[RC] = ""
           /\ leaseExpiration[RC] = ZeroTime
           /\ ~HasLease(RC)
           /\ calls[RC].release <= calls[RC].acquire

\* the release-command machine was updated under its lease, the lease was
\* released by an API call, and the wait for started has begun
C17_Witness ==
    /\ Len(trace) >= 3
    /\ trace[2] = Entry("Update", RC, "release_command", "nil")
    /\ trace[3].op = "WaitForState"
    /\ trace[3].arg = "started"
    /\ calls[RC] = [NoCalls EXCEPT !.acquire = 1, !.update = 1, !.release = 1]

\* ============================================================== SpecFleet
\* setMachinesForDeployment: what the deployment takes as its app MachineSet
\* and as its release-command machine, for every fleet the control plane can
\* list.  The two listing calls are flaps client code; they are modelled from
\* the specification's "List VMs for app: () -> (appVMs, releaseCommandVM)".
MaxFleet == 2

VMs == 1..MaxFleet

ProcessGroups == {"app", "release_command"}

\* a VM of the app: its process group, whether it is part of the Apps
\* Platform, and whether it is active (not destroyed)
Fleets == [VMs -> [group : ProcessGroups, platform : BOOLEAN, active : BOOLEAN]]

fleetFrame ==
    <<now, leaseVars, cpVars, fleet, orig, mConfig, volumes, resolved, ctx, stack,
      ms, fan, idx, polls, ret, held, exitCode, calls, launches, trace>>

IsReleaseCommandMachine(f, v) == f[v].group = "release_command"

\* the app VMs ListFlyAppsMachines returns: active platform machines, the
\* release-command machine classified apart from them
FlyAppsMachines(f) ==
    SelectSeq(SeqTo(MaxFleet),
              LAMBDA v : f[v].platform /\ f[v].active /\ ~IsReleaseCommandMachine(f, v))

\* the release-command machine ListFlyAppsMachines returns: one of that
\* group, nil when there is none
ReleaseCmdMachines(f) ==
    IF \E v \in VMs : IsReleaseCommandMachine(f, v)
    THEN {v \in VMs : IsReleaseCommandMachine(f, v)}
    ELSE {NilMachine}

\* the fallback listing: every active machine, platform or not, the
\* release-command machine still apart
ListActive(f) ==
    SelectSeq(SeqTo(MaxFleet),
              LAMBDA v : f[v].active /\ ~IsReleaseCommandMachine(f, v))

\* one LeasableMachine per listed machine, in the listed order
NewMachineSet(machines) == machines

\* md.machineSet = NewMachineSet(..., machines)
DeployedMachinesWithReleaseCmd(machines, releaseCmdMachine) ==
    NewMachineSet(IF releaseCmdMachine = NilMachine
                  THEN machines
                  ELSE Append(machines, releaseCmdMachine))

DeployedMachines(machines, releaseCmdMachine) == NewMachineSet(machines)

\* var releaseCmdSet; if releaseCmdMachine != nil { releaseCmdSet = {it} }
ReleaseCmdSet(releaseCmdMachine) ==
    IF releaseCmdMachine = NilMachine THEN <<>> ELSE <<releaseCmdMachine>>

\* prompt.Confirmf: the answer, or why there is none
PromptOutcomes == {"yes", "no", "noninteractive", "other"}

SetMachinesForDeployment(listErr, releaseCmdMachine, activeErr, autoConfirm, answer) ==
    /\ pc = "setMachinesForDeployment"
    /\ pc' = "done"
    /\ LET listed == FlyAppsMachines(fleet)
           fallback == Len(listed) = 0
           machines == IF fallback THEN ListActive(fleet) ELSE listed
           prompted == fallback /\ Len(machines) > 0 /\ ~autoConfirm
       IN  IF listErr # "nil"
           THEN result' = listErr /\ UNCHANGED md
           ELSE IF fallback /\ activeErr # "nil"
           THEN result' = activeErr /\ UNCHANGED md
           ELSE IF prompted /\ answer = "no"
           THEN /\ md' = [md EXCEPT !.machineSet = NewMachineSet(<<>>)]
                /\ result' = "nil"
           ELSE IF prompted /\ answer # "yes"
           THEN result' = answer /\ UNCHANGED md
           ELSE /\ md' = [md EXCEPT
                            !.machineSet = DeployedMachines(machines, releaseCmdMachine),
                            !.releaseCommandMachine =
                                NewMachineSet(ReleaseCmdSet(releaseCmdMachine))]
                /\ result' = "nil"
    /\ UNCHANGED fleetFrame

InitFleet ==
    /\ now = StartTime
    /\ leaseNonce = [lm \in {RC} |-> ""]
    /\ leaseExpiration = [lm \in {RC} |-> ZeroTime]
    /\ machine = [lm \in {RC} |-> OrigMachine]
    /\ cpLease = NoCPLease
    /\ cpGrants = 0
    /\ inflight = [r \in Rollouts |-> NoCall]
    /\ last = [r \in Rollouts |-> NoReturn]
    /\ fleet \in Fleets
    /\ orig = <<>>
    /\ mConfig = <<>>
    /\ volumes = <<>>
    /\ resolved = <<>>
    /\ md = [strategy |-> "rolling", skipHealthChecks |-> FALSE, restartOnly |-> FALSE,
             releaseCommand |-> "", machineSet |-> <<>>, releaseCommandMachine |-> <<>>]
    /\ ctx = "live"
    /\ pc = "setMachinesForDeployment"
    /\ stack = <<>>
    /\ ms = <<>>
    /\ fan = NoFan
    /\ idx = 0
    /\ polls = 0
    /\ ret = "nil"
    /\ held = "nil"
    /\ result = "pending"
    /\ exitCode = NoExitCode
    /\ calls = [lm \in {RC} |-> NoCalls]
    /\ launches = <<>>
    /\ trace = <<>>

NextFleet ==
    \E listErr \in ApiErrs(ctx), releaseCmdMachine \in ReleaseCmdMachines(fleet),
       activeErr \in ApiErrs(ctx), autoConfirm \in BOOLEAN, answer \in PromptOutcomes :
        SetMachinesForDeployment(listErr, releaseCmdMachine, activeErr, autoConfirm, answer)

SpecFleet == InitFleet /\ [][NextFleet]_vars

Regions == {"ams", "fra"}

MachineStates == {"started", "stopped", "created"}

HostDedicationIDs == {"", "h1", "h2"}

\* fly.MachineMount: the settings stand for ExtendThresholdPercent,
\* AddSizeGb and SizeGbLimit, which the code copies together
Mount(name, path, volume, settings) ==
    [Name |-> name, Path |-> path, Volume |-> volume, Settings |-> settings]

\* the mounts an existing VM can have: none, or one attached volume, whose
\* name may be unrecorded
OrigMounts ==
    {<<>>} \cup {<<Mount(n, "/data", "vol_attached", "old")>> : n \in {"", "data"}}

\* the mounts the app config can ask for; no volume id is known yet
DesiredMounts ==
    {<<>>} \cup {<<Mount(n, p, "", e)>> :
                   n \in {"data", "logs"}, p \in {"/data", "/mnt"}, e \in {"old", "new"}}

\* fly.MachineService: Autostop and Autostart are pointers to bool
Service(autostop, autostart) == [Autostop |-> autostop, Autostart |-> autostart]

ServiceLists ==
    {<<>>, <<Service("nil", "nil")>>, <<Service("true", "nil")>>,
     <<Service("nil", "true")>>, <<Service("false", "false")>>}

StandbyLists == {<<>>, <<"m0">>}

\* origMachineRaw
OrigMachines ==
    [ID : {"m1"}, State : MachineStates, Region : {"ams"},
     Config : [Mounts : OrigMounts, Guest : [HostDedicationID : {"", "h1"}]]]

\* mConfig, as md.appConfig.ToMachineConfig(processGroup, orig.Config) gives it
MachineConfigs ==
    [Mounts : DesiredMounts, Services : ServiceLists, Standbys : StandbyLists,
     Guest : [HostDedicationID : {"", "h1"}]]

\* md.volumes: the unattached volumes of the app
UnattachedVolumes ==
    {[ID |-> "vol_data_1", Name |-> "data", Region |-> "ams"],
     [ID |-> "vol_data_2", Name |-> "data", Region |-> "ams"],
     [ID |-> "vol_logs_fra", Name |-> "logs", Region |-> "fra"],
     [ID |-> "vol_logs_ams", Name |-> "logs", Region |-> "ams"]}

NilVolume == [ID |-> "", Name |-> "", Region |-> ""]

configFrame ==
    <<now, leaseVars, cpVars, fleet, orig, mConfig, md, ctx, stack, ms, fan, idx,
      polls, ret, held, result, exitCode, calls, launches, trace>>

\* the volumes popVolumeFor can return: unattached, of that name, in that
\* region; nil when there is none
MatchingVolumes(vols, name, region) ==
    {v \in vols : v.Name = name /\ v.Region = region}

PopVolumeFor(vols, name, region) ==
    IF MatchingVolumes(vols, name, region) = {}
    THEN {NilVolume}
    ELSE MatchingVolumes(vols, name, region)

\* the desired host-dedication id is set and is not the VM's current one
dedicatedHostIdMismatch(origMachineRaw, appConfig) ==
    /\ appConfig.HostDedicationID # ""
    /\ appConfig.HostDedicationID # origMachineRaw.Config.Guest.HostDedicationID

\* the name the desired mount asks a volume for: the only argument of
\* popVolumeFor that launchInputForUpdate takes from the config
WantedVolumeName(origMachineRaw, conf) ==
    IF Len(conf.Mounts) = 0 THEN ""
    ELSE IF Len(origMachineRaw.Config.Mounts) = 0 THEN conf.Mounts[1].Name
    ELSE IF origMachineRaw.Config.Mounts[1].Name # ""
            /\ conf.Mounts[1].Name # origMachineRaw.Config.Mounts[1].Name
         THEN conf.Mounts[1].Name
    ELSE ""

\* what one branch of the mount rules leaves: an error or the mounts, whether
\* the machine must be replaced, and whether vol was taken from md.volumes
MountRule(err, mounts, replace, popped) ==
    [err |-> err, Mounts |-> mounts, replace |-> replace, popped |-> popped]

\* the volume to attach is a new one: vol must exist, and the machine is
\* replaced, since a volume cannot be attached to an existing machine
AttachNewVolumeInPlace(mount0, vol) ==
    IF vol = NilVolume
    THEN MountRule("needs_unattached_volume", <<>>, FALSE, FALSE)
    ELSE MountRule("nil", <<[mount0 EXCEPT !.Volume = vol.ID]>>, FALSE, TRUE)

AttachNewVolume(mount0, vol) ==
    IF vol = NilVolume
    THEN MountRule("needs_unattached_volume", <<>>, FALSE, FALSE)
    ELSE MountRule("nil", <<[mount0 EXCEPT !.Volume = vol.ID]>>, TRUE, TRUE)

\* the volume is the same but its mount path changed: the volume id is
\* copied over, the path is already the desired one
UpdateMountPathSwapped(oMount, mMount) ==
    MountRule("nil", <<[oMount EXCEPT !.Volume = mMount.Volume]>>, FALSE, FALSE)

UpdateMountPath(oMount, mMount) ==
    MountRule("nil", <<[mMount EXCEPT !.Volume = oMount.Volume]>>, FALSE, FALSE)

\* the switch on an original machine that has a mount
ReconcileMountsRetaining(oMounts, mMounts, vol) ==
    IF Len(mMounts) = 0
    THEN MountRule("nil", <<>>, TRUE, FALSE)
    ELSE MountRule("nil", <<[oMounts[1] EXCEPT !.Settings = mMounts[1].Settings]>>,
                   FALSE, FALSE)

ReconcileMounts(oMounts, mMounts, vol) ==
    IF Len(mMounts) = 0
    THEN MountRule("nil", <<>>, TRUE, FALSE)
    ELSE LET latest == mMounts[1].Settings
             Kept(rule) ==
                 IF rule.err # "nil" THEN rule
                 ELSE [rule EXCEPT !.Mounts = <<[rule.Mounts[1] EXCEPT !.Settings = latest]>>]
         IN  IF oMounts[1].Name = ""
             THEN Kept(MountRule("nil", <<oMounts[1]>>, FALSE, FALSE))
             ELSE IF mMounts[1].Name # oMounts[1].Name
             THEN Kept(AttachNewVolume(mMounts[1], vol))
             ELSE IF mMounts[1].Path # oMounts[1].Path
             THEN Kept(UpdateMountPath(oMounts[1], mMounts[1]))
             ELSE Kept(MountRule("nil", <<oMounts[1]>>, FALSE, FALSE))

\* the whole of the mount rules
MountRules(oMounts, mMounts, vol) ==
    IF Len(oMounts) # 0 THEN ReconcileMounts(oMounts, mMounts, vol)
    ELSE IF Len(mMounts) # 0 THEN AttachNewVolume(mMounts[1], vol)
    ELSE MountRule("nil", <<>>, FALSE, FALSE)

IsSet(flag) == flag = "true"

skipLaunch(origMachineRaw, conf) ==
    IF origMachineRaw.State = "started" THEN FALSE
    ELSE IF Len(conf.Standbys) > 0 THEN TRUE
    ELSE IF origMachineRaw.State = "stopped"
         THEN \E i \in 1..Len(conf.Services) :
                  IsSet(conf.Services[i].Autostop) \/ IsSet(conf.Services[i].Autostart)
    ELSE FALSE

NoLaunchInput == [ID |-> ""]

\* (launch input, error) of launchInputForUpdate, and what is left of
\* md.volumes, vol being what popVolumeFor returns if it is called
launchInputForUpdate(origMachineRaw, appConfig, conf, vols, vol) ==
    LET oMounts == origMachineRaw.Config.Mounts
        mMounts == conf.Mounts
        rule == MountRules(oMounts, mMounts, vol)
        left == IF rule.popped THEN vols \ {vol} ELSE vols
        standbys == IF Len(conf.Services) > 0 /\ Len(conf.Standbys) > 0
                    THEN <<>> ELSE conf.Standbys
        hdid == appConfig.HostDedicationID
        moved == hdid # "" /\ hdid # origMachineRaw.Config.Guest.HostDedicationID
        final == [Mounts |-> rule.Mounts,
                  Services |-> conf.Services,
                  Standbys |-> standbys,
                  Guest |-> IF moved THEN [HostDedicationID |-> hdid] ELSE conf.Guest]
    IN  IF rule.err # "nil"
        THEN [err |-> rule.err, input |-> NoLaunchInput, volumes |-> left]
        ELSE IF moved /\ Len(oMounts) > 0 /\ Len(mMounts) > 0
        THEN [err |-> "cannot_relocate", input |-> NoLaunchInput, volumes |-> left]
        ELSE [err |-> "nil",
              input |-> [ID |-> origMachineRaw.ID,
                         Region |-> origMachineRaw.Region,
                         Config |-> final,
                         SkipLaunch |-> skipLaunch(origMachineRaw, final),
                         RequiresReplacement |->
                             \/ dedicatedHostIdMismatch(origMachineRaw, appConfig)
                             \/ rule.replace
                             \/ moved],
              volumes |-> left]

LaunchInputForUpdate ==
    /\ pc = "launchInputForUpdate"
    /\ pc' = "done"
    /\ \E vol \in PopVolumeFor(volumes, WantedVolumeName(orig, mConfig), orig.Region) :
           LET out == launchInputForUpdate(orig, md.appConfig, mConfig, volumes, vol)
           IN  /\ resolved' = [err |-> out.err, input |-> out.input]
               /\ volumes' = out.volumes
    /\ UNCHANGED configFrame

InitConfig ==
    /\ now = StartTime
    /\ leaseNonce = [lm \in {RC} |-> ""]
    /\ leaseExpiration = [lm \in {RC} |-> ZeroTime]
    /\ machine = [lm \in {RC} |-> OrigMachine]
    /\ cpLease = NoCPLease
    /\ cpGrants = 0
    /\ inflight = [r \in Rollouts |-> NoCall]
    /\ last = [r \in Rollouts |-> NoReturn]
    /\ fleet = <<>>
    /\ orig \in OrigMachines
    /\ mConfig \in MachineConfigs
    /\ volumes \in SUBSET UnattachedVolumes
    /\ resolved = [err |-> "pending", input |-> NoLaunchInput]
    /\ md \in [appConfig : [HostDedicationID : HostDedicationIDs]]
    /\ ctx = "live"
    /\ pc = "launchInputForUpdate"
    /\ stack = <<>>
    /\ ms = <<>>
    /\ fan = NoFan
    /\ idx = 0
    /\ polls = 0
    /\ ret = "nil"
    /\ held = "nil"
    /\ result = "pending"
    /\ exitCode = NoExitCode
    /\ calls = [lm \in {RC} |-> NoCalls]
    /\ launches = <<>>
    /\ trace = <<>>

NextConfig == LaunchInputForUpdate

SpecConfig == InitConfig /\ [][NextConfig]_vars

\* the original machine has no mount and the desired config has one
MountAdded == Len(orig.Config.Mounts) = 0 /\ Len(mConfig.Mounts) = 1

\* an unattached volume of the desired mount's name was in the machine's
\* region when the config was resolved; the pool only shrinks, by the volume
\* taken
HadMatchingVolume ==
    \E v \in UnattachedVolumes :
        /\ v.Name = mConfig.Mounts[1].Name
        /\ v.Region = orig.Region
        /\ v \in volumes \/ (resolved.err = "nil" /\ resolved.input.Config.Mounts[1].Volume = v.ID)

\* the resolved mount carries the id of a matching volume, which has left
\* the pool of unattached volumes
CarriesMatchingVolume ==
    /\ resolved.err = "nil"
    /\ Len(resolved.input.Config.Mounts) = 1
    /\ \E v \in UnattachedVolumes :
           /\ v.Name = mConfig.Mounts[1].Name
           /\ v.Region = orig.Region
           /\ v \notin volumes
           /\ resolved.input.Config.Mounts[1].Volume = v.ID

\* C20 as stated: a mount added with a matching free volume resolves to a
\* mount carrying that volume's id WITHOUT forcing replacement, and without a
\* matching volume resolution fails.
C20_MountAddedInPlace ==
    (pc = "done" /\ MountAdded) =>
        IF HadMatchingVolume
        THEN /\ resolved.err = "nil"
             /\ CarriesMatchingVolume
             /\ ~resolved.input.RequiresReplacement
        ELSE resolved.err = "needs_unattached_volume"

\* C20, amended: a mount added with a matching free volume resolves to a
\* mount carrying that volume's id, the desired name and path, and
\* replacement IS forced; without a matching volume resolution fails with
\* the "needs an unattached volume" error, no launch input is produced and
\* no volume is taken.
C20_MountAddedForcesReplacement ==
    (pc = "done" /\ MountAdded) =>
        IF HadMatchingVolume
        THEN /\ resolved.err = "nil"
             /\ CarriesMatchingVolume
             /\ resolved.input.Config.Mounts[1].Name = mConfig.Mounts[1].Name
             /\ resolved.input.Config.Mounts[1].Path = mConfig.Mounts[1].Path
             /\ resolved.input.RequiresReplacement
        ELSE /\ resolved.err = "needs_unattached_volume"
             /\ resolved.input = NoLaunchInput
             /\ \A v \in UnattachedVolumes : v.Name = mConfig.Mounts[1].Name /\ v.Region = orig.Region
                                                 => v \notin volumes

\* a mount was added, nothing else asks for a replacement, and the config
\* resolved to a mount with a volume that was unattached
C20_Witness ==
    /\ pc = "done"
    /\ MountAdded
    /\ md.appConfig.HostDedicationID = ""
    /\ CarriesMatchingVolume
    /\ resolved.input.RequiresReplacement

\* the desired host-dedication id is set and differs from the machine's:
\* line 252, the test that guards the relocation rule
Relocates ==
    /\ md.appConfig.HostDedicationID # ""
    /\ md.appConfig.HostDedicationID # orig.Config.Guest.HostDedicationID

BothMounted == Len(orig.Config.Mounts) = 1 /\ Len(mConfig.Mounts) = 1

\* both mounts exist, with the same name and different paths
PathChangeOnly ==
    /\ BothMounted
    /\ mConfig.Mounts[1].Name = orig.Config.Mounts[1].Name
    /\ mConfig.Mounts[1].Path # orig.Config.Mounts[1].Path

\* C21: when the original and desired mounts share a name and differ in
\* path, resolution fails only by the host-dedication rule; otherwise the
\* resolved mount keeps the original volume id and the name, takes the
\* desired path, and replacement is not required.
C21_PathChangeInPlace ==
    (pc = "done" /\ PathChangeOnly) =>
        /\ resolved.err = (IF Relocates THEN "cannot_relocate" ELSE "nil")
        /\ resolved.err = "nil" =>
               /\ Len(resolved.input.Config.Mounts) = 1
               /\ resolved.input.Config.Mounts[1].Volume = orig.Config.Mounts[1].Volume
               /\ resolved.input.Config.Mounts[1].Name = orig.Config.Mounts[1].Name
               /\ resolved.input.Config.Mounts[1].Path = mConfig.Mounts[1].Path
               /\ resolved.input.Config.Mounts[1].Path # orig.Config.Mounts[1].Path
               /\ ~resolved.input.RequiresReplacement

\* a path-only change was resolved to the original volume at the new path
C21_Witness ==
    /\ pc = "done"
    /\ PathChangeOnly
    /\ resolved.err = "nil"
    /\ resolved.input.Config.Mounts[1].Volume = "vol_attached"
    /\ resolved.input.Config.Mounts[1].Path = "/mnt"
    /\ ~resolved.input.RequiresReplacement

\* both mounts exist and the original mount's recorded name is not the
\* desired one
NameChange ==
    /\ BothMounted
    /\ orig.Config.Mounts[1].Name # ""
    /\ mConfig.Mounts[1].Name # orig.Config.Mounts[1].Name

\* C22: when both mounts exist under different names (the original's
\* recorded), resolving the config takes an unattached volume of the desired
\* name in the machine's region out of the pool, puts its id in the resolved
\* mount and requires replacement; with no such volume it fails with the
\* "needs an unattached volume" error, produces no launch input and takes no
\* volume.  (With a volume found, only the host-dedication rule can still
\* reject the resolution.)
C22_NameChangeTakesVolume ==
    [][(pc = "launchInputForUpdate" /\ NameChange) =>
          LET matching == MatchingVolumes(volumes, mConfig.Mounts[1].Name, orig.Region)
          IN  IF matching = {}
              THEN /\ resolved'.err = "needs_unattached_volume"
                   /\ resolved'.input = NoLaunchInput
                   /\ volumes' = volumes
              ELSE /\ \E v \in matching :
                          /\ volumes' = volumes \ {v}
                          /\ resolved'.err = "nil" =>
                                 resolved'.input.Config.Mounts[1].Volume = v.ID
                   /\ resolved'.err = (IF Relocates THEN "cannot_relocate" ELSE "nil")
                   /\ resolved'.err = "nil" =>
                          /\ Len(resolved'.input.Config.Mounts) = 1
                          /\ resolved'.input.Config.Mounts[1].Name = mConfig.Mounts[1].Name
                          /\ resolved'.input.Config.Mounts[1].Path = mConfig.Mounts[1].Path
                          /\ resolved'.input.RequiresReplacement
                   /\ resolved'.err # "nil" => resolved'.input = NoLaunchInput
      ]_vars

\* a renamed mount was resolved to the unattached volume of the new name in
\* the machine's region, which left the pool, while the volume of that name
\* in the other region stayed
C22_Witness ==
    /\ pc = "done"
    /\ NameChange
    /\ resolved.err = "nil"
    /\ resolved.input.Config.Mounts[1].Volume = "vol_logs_ams"
    /\ resolved.input.RequiresReplacement
    /\ \A v \in UnattachedVolumes : v.ID = "vol_logs_ams" => v \notin volumes
    /\ \E v \in volumes : v.ID = "vol_logs_fra"

\* C23: whenever the desired host-dedication id differs from the machine's
\* and the machine has an attached volume (its original config has a
\* mount), resolution fails with an error and produces no launch input,
\* whatever the desired config says about mounts.
C23_NoRelocationWithVolume ==
    (pc = "done" /\ Relocates /\ Len(orig.Config.Mounts) = 1) =>
        /\ resolved.err # "nil"
        /\ resolved.input = NoLaunchInput

\* one of the resolved config's services has autostop or autostart enabled
Autoscaled(conf) ==
    \E i \in 1..Len(conf.Services) :
        conf.Services[i].Autostop = "true" \/ conf.Services[i].Autostart = "true"

\* C24: for every machine state and resolved config, SkipLaunch is true
\* exactly when the machine is not started and either it is a standby
\* machine or one of its services has autostart or autostop enabled.
C24_SkipLaunchExactly ==
    (pc = "done" /\ resolved.err = "nil") =>
        (resolved.input.SkipLaunch <=>
            /\ orig.State # "started"
            /\ \/ Len(resolved.input.Config.Standbys) > 0
               \/ Autoscaled(resolved.input.Config))

\* ------------------------------------------------------------------ C25
\* md.machineSet.AcquireLeases has returned an error
AppAcquireFailed ==
    \E i \in 1..Len(trace) :
        /\ trace[i].op = "AcquireLeases"
        /\ trace[i].arg = "app"
        /\ trace[i].res # "nil"

LeaseStates ==
    {[nonce |-> "", exp |-> ZeroTime],
     [nonce |-> "nonce", exp |-> StartTime],
     [nonce |-> "nonce", exp |-> StartTime + LeaseTtl]}

InitFan ==
    /\ ms \in {SeqTo(n) : n \in 0..MaxMachines}
    /\ now = StartTime
    /\ \E l \in [LMs -> LeaseStates] :
           /\ leaseNonce = [lm \in LMs |-> l[lm].nonce]
           /\ leaseExpiration = [lm \in LMs |-> l[lm].exp]
           /\ \A lm \in LMs : lm \notin Range(ms) => l[lm].nonce = ""
    /\ machine = [lm \in LMs |-> OrigMachine]
    /\ cpLease = NoCPLease
    /\ cpGrants = 0
    /\ inflight = [r \in Rollouts |-> NoCall]
    /\ last = [r \in Rollouts |-> NoReturn]
    /\ NoConfig
    /\ md = [strategy |-> "rolling", skipHealthChecks |-> FALSE, restartOnly |-> FALSE,
             releaseCommand |-> "", machineSet |-> ms, releaseCommandMachine |-> <<>>]
    /\ ctx \in {"live", "canceled", "deadline"}
    /\ pc \in {"AcquireLeases", "ReleaseLeases"}
    /\ stack = <<"done">>
    /\ fan = NoFan
    /\ idx = 0
    /\ polls = 0
    /\ ret = "pending"
    /\ held = "nil"
    /\ result = "pending"
    /\ exitCode = NoExitCode
    /\ calls = [lm \in LMs |-> NoCalls]
    /\ launches = <<>>
    /\ trace = <<>>

NextFan ==
    \/ AcquireLeases
    \/ \E lm \in LMs : AcquireWorker(lm)
    \/ CloseResults
    \/ AcquireCollect
    \/ AcquireLeasesCollected
    \/ AcquireLeasesFailed
    \/ ReleaseLeases
    \/ \E lm \in LMs : ReleaseWorker(lm)
    \/ ReleaseCollect
    \/ ReleaseLeasesCollected

SpecFan == InitFan /\ [][NextFan]_vars /\ WF_vars(NextFan)

\* results sent so far: one by each worker that has run
Sent == Len(ms) - Cardinality(fan.todo)

\* results the range loop has received
Received == Sent - Len(fan.results)

Collecting == pc \in {"acq_collect", "rel_collect"}

\* C26: for a MachineSet of any size and any outcomes of the members' calls,
\* AcquireLeases and ReleaseLeases return: while results are collected each
\* worker still to run finds room in the channel (at most N results are
\* buffered, one per worker that ran, each worker counted down once), the
\* channel is closed only after all N sends, the loop ends only on a closed
\* and drained channel, having received exactly N results, with no worker
\* left; and the call always eventually returns.
C26_FanInTerminates ==
    /\ [](Collecting =>
             /\ fan.todo \subseteq Range(ms)
             /\ fan.wg = Cardinality(fan.todo)
             /\ Len(fan.results) <= Capacity
             /\ fan.todo # {} => ~SendBlocks
             /\ Received >= 0
             /\ fan.closed => (fan.todo = {} /\ Sent = Len(ms)))
    /\ [][(Collecting /\ ~Collecting') =>
             /\ fan.closed
             /\ fan.todo = {}
             /\ fan.results = <<>>
             /\ Received = Len(ms)]_vars
    /\ <>(pc = "done" /\ ret # "pending")

\* AcquireLeases of two members returned its error: a member failed, the
\* cleanup ReleaseLeases ran its own fan-out, and the second channel too was
\* closed and drained
C26_Witness ==
    /\ pc = "done"
    /\ ret = "error acquiring leases"
    /\ Len(ms) = 2
    /\ fan.closed
    /\ fan.todo = {}
    /\ fan.results = <<>>
    /\ \E lm \in Range(ms) : calls[lm].acquire = 1 /\ calls[lm].release = 1

\* ------------------------------------------------------------------ C39
\* AcquireLeases is about to run ReleaseLeases as its cleanup
CleanupStarts ==
    /\ pc = "ReleaseLeases"
    /\ stack # <<>>
    /\ Head(stack) = "acq_cleanup"

\* the workers that finish in this step
Finishing == fan.todo \ fan'.todo

LeaseFieldsChange ==
    {lm \in LMs : \/ leaseNonce'[lm] # leaseNonce[lm]
                  \/ leaseExpiration'[lm] # leaseExpiration[lm]}

\* C39: within one AcquireLeases call, ReleaseLeases starts as cleanup only
\* when every AcquireLease worker has finished, the wait group at zero and
\* the channel closed and drained, so that no member's ReleaseLease runs
\* while its AcquireLease is still to finish; and a member's nonce and
\* expiry are touched only by the one worker that runs for that member in
\* the fan-out under way.
C39_JoinBeforeCleanup ==
    /\ [](CleanupStarts =>
             /\ fan.todo = {}
             /\ fan.wg = 0
             /\ fan.closed
             /\ fan.results = <<>>
             /\ fan.hadError)
    /\ [][LeaseFieldsChange # {} =>
             /\ pc \in {"acq_collect", "rel_collect"}
             /\ pc' = pc
             /\ Cardinality(Finishing) = 1
             /\ LeaseFieldsChange = Finishing]_vars

\* one member's acquisition failed and the other's succeeded, both workers
\* had finished, and the cleanup is about to release the lease taken
C39_Witness ==
    /\ CleanupStarts
    /\ Len(ms) = 2
    /\ fan.failed = 1
    /\ \E lm \in Range(ms) : HasLease(lm) /\ calls[lm].acquire = 1

\* ------------------------------------------------------------------ C27
\* a wait of runReleaseCommand on the release-command machine
IsReleaseCommandWait(e, desiredState) ==
    /\ e.lm = RC
    /\ \/ e.op = "WaitForState" /\ e.arg = desiredState
       \/ e.op = "WaitForEventTypeAfterType" /\ e.arg = desiredState

\* a wait that has returned an error
WaitError(e) ==
    /\ e.op \in {"WaitForState", "WaitForEventTypeAfterType"}
    /\ e.res \notin {"nil", "running"}

\* C27: in the release-command phase the wait for the exit event is called
\* only right after a wait for stopped that returned nil, itself called right
\* after a wait for started that returned nil; an exit code is inspected only
\* once that wait for the exit event has returned an event; and an error of
\* any of these waits is the last call of the deployment, which returns
\* "release command failed" with no call made on any app machine and no
\* machine launched.
C27_ExitCodeAfterStartedThenStopped ==
    /\ \A k \in 1..Len(trace) :
           IsReleaseCommandWait(trace[k], "exit") =>
               /\ k >= 3
               /\ trace[k - 1] = Entry("WaitForState", RC, "stopped", "nil")
               /\ trace[k - 2] = Entry("WaitForState", RC, "started", "nil")
    /\ \A k \in 2..Len(trace) :
           (IsReleaseCommandWait(trace[k], "stopped")
            /\ trace[k - 1].op = "WaitForState") =>
               trace[k - 1] = Entry("WaitForState", RC, "started", "nil")
    /\ pc = "rc_wait_exit" =>
           /\ exitCode = NoExitCode
           /\ Len(trace) >= 2
           /\ \E k \in 2..Len(trace) :
                  /\ trace[k] = Entry("WaitForState", RC, "stopped", "nil")
                  /\ k >= Len(trace) - 1
    /\ exitCode # NoExitCode =>
           \E k \in 3..Len(trace) :
               trace[k] = Entry("WaitForEventTypeAfterType", RC, "exit", "nil")
    /\ \A k \in 1..Len(trace) :
           (trace[k].lm = RC /\ WaitError(trace[k])) =>
               /\ k = Len(trace)
               /\ pc = "done"
               /\ result = "release command failed"
               /\ launches = <<>>
               /\ \A lm \in AppMachines : calls[lm] = NoCalls
               /\ \A i \in 1..Len(trace) : trace[i].lm = RC

\* the release command ran to exit code 0 after the three waits, and the
\* deployment went on to the app machines
C27_Witness ==
    /\ exitCode = 0
    /\ Len(trace) >= 3
    /\ \E k \in 3..Len(trace) :
           /\ trace[k] = Entry("WaitForEventTypeAfterType", RC, "exit", "nil")
           /\ trace[k - 1] = Entry("WaitForState", RC, "stopped", "nil")
           /\ trace[k - 2] = Entry("WaitForState", RC, "started", "nil")
    /\ \E lm \in AppMachines : calls[lm].update = 1

\* ------------------------------------------------------------------ C28
IsAppWait(e) ==
    /\ e.lm \in AppMachines
    /\ e.op \in {"WaitForState", "WaitForHealthchecksToPass"}

\* the call trace[q] is followed by the call op on the same machine, or the
\* rollout is about to make that call
FollowedBy(q, op, at) ==
    IF q = Len(trace)
    THEN pc = at /\ md.machineSet[idx] = trace[q].lm
    ELSE trace[q + 1].op = op /\ trace[q + 1].lm = trace[q].lm

\* C28: in the populated-fleet phase, under "immediate" no wait-for-started
\* and no health-check wait is issued for any app machine; under any other
\* strategy every Update that returned nil is followed by a wait for started
\* on that machine, health checks skipped or not, every wait for started
\* that returned nil is followed by a health-check wait on that machine
\* unless health checks are skipped, in which case none is ever issued; and
\* an error of either wait ends the rollout, which returns that error.
C28_WaitGating ==
    /\ md.strategy = "immediate" =>
           \A q \in 1..Len(trace) : ~IsAppWait(trace[q])
    /\ md.strategy # "immediate" =>
           \A q \in 1..Len(trace) :
               /\ (IsAppUpdate(trace[q]) /\ trace[q].res = "nil") =>
                      /\ FollowedBy(q, "WaitForState", "dma_wait_started")
                      /\ q < Len(trace) => trace[q + 1].arg = "started"
               /\ (IsAppWait(trace[q]) /\ trace[q].op = "WaitForState"
                   /\ trace[q].res = "nil") =>
                      IF md.skipHealthChecks
                      THEN q < Len(trace) => trace[q + 1].op \in {"Update", "ReleaseLeases"}
                      ELSE FollowedBy(q, "WaitForHealthchecksToPass", "dma_wait_health")
               /\ (IsAppWait(trace[q]) /\ trace[q].op = "WaitForHealthchecksToPass") =>
                      ~md.skipHealthChecks
    /\ \A q \in 1..Len(trace) :
           (IsAppWait(trace[q]) /\ trace[q].res \notin {"nil", "running"}) =>
               /\ \A j \in (q + 1)..Len(trace) : trace[j].op = "ReleaseLeases"
               /\ pc \notin {"dma_update", "dma_wait_started", "dma_wait_health"}
               /\ pc = "done" => result = trace[q].res

\* a rolling rollout that skips health checks waited for its first machine
\* to start and went on to update the second
C28_Witness ==
    /\ md.strategy = "rolling"
    /\ md.skipHealthChecks
    /\ Len(AppUpdates) = 2
    /\ \E q \in 2..Len(trace) :
           /\ trace[q] = Entry("WaitForState", md.machineSet[1], "started", "nil")
           /\ trace[q - 1] = Entry("Update", md.machineSet[1], "app", "nil")
           /\ q < Len(trace)
           /\ trace[q + 1].op = "Update"

\* ------------------------------------------------------------------ C29
\* C29: an error of the remote fetch that is no context error ("other") is
\* retried by every polling operation, WaitForState,
\* WaitForHealthchecksToPass and WaitForEventTypeAfterType: none of them ever
\* returns it to its caller.
C29_TransientErrorsRetried ==
    \A q \in 1..Len(trace) :
        trace[q].op \in {"WaitForState", "WaitForHealthchecksToPass",
                         "WaitForEventTypeAfterType"}
            => trace[q].res # "other"

\* ------------------------------------------------------------------ C31
IsHealthWait(e) == e.op = "WaitForHealthchecksToPass"

\* the wait looked at the machine the Update before it had stored: the call
\* made no Get exactly when that machine's Config.Checks is nil
HealthWaitSkipsOnNilOnly ==
    \A q \in 1..Len(trace) :
        IsHealthWait(trace[q]) =>
            (trace[q].arg = "no checks" <=> machine[trace[q].lm].checks = "nil")

\* C31: WaitForHealthchecksToPass returns nil without any Get when the
\* machine has no configured check, its check collection being nil or
\* allocated and empty; with checks configured it fetches the machine, and
\* returns nil only from a Get that showed every check passing.
C31_NoGetWithoutChecks ==
    \A q \in 1..Len(trace) :
        IsHealthWait(trace[q]) =>
            IF machine[trace[q].lm].checks \in {"nil", "empty"}
            THEN trace[q].arg = "no checks" /\ trace[q].res = "nil"
            ELSE trace[q].arg = "get"


\* ------------------------------------------------------------------ C33
AtReleaseReturn == pc \in {"acq_cleanup", "urc_return", "dma_released"}

ContextErrors == {"canceled", "deadline"}

\* C33: ReleaseLeases returns nil when the caller's context was already
\* canceled (context.Canceled) and every error its members returned is a
\* canceled or deadline-exceeded error; it returns an error when a member
\* returned an error of another kind, and when a member returned any error
\* while the caller's context was not already canceled, a context past its
\* deadline included.
C33_ReleaseErrorsCounted ==
    AtReleaseReturn =>
        /\ fan.wasCanceled => ctx = "canceled"
        /\ (fan.wasCanceled /\ fan.errs \subseteq ContextErrors) => ret = "nil"
        /\ (fan.errs \ ContextErrors # {}) => ret = "error releasing leases"
        /\ (~fan.wasCanceled /\ fan.errs # {}) => ret = "error releasing leases"
        /\ fan.errs = {} => ret = "nil"

\* the context was canceled, a member's release ran into the deadline of the
\* replacement context, and ReleaseLeases returned nil
C33_Witness ==
    /\ AtReleaseReturn
    /\ fan.wasCanceled
    /\ fan.errs = {"deadline"}
    /\ ret = "nil"


\* ------------------------------------------------------------------ C34
\* the calls of the rollout on app machines whose error ends the rollout
IsRolloutFailure(e) ==
    /\ e.lm \in AppMachines
    /\ e.op \in {"Update", "WaitForState", "WaitForHealthchecksToPass"}
    /\ e.res \notin {"nil", "running"}
    /\ md.strategy # "immediate"

RolloutFailures == SelectSeq(trace, IsRolloutFailure)

\* the error of the rollout proper: that of AcquireLeases, else that of the
\* first update or wait that ended the loop, else nil
RolloutError ==
    IF AppAcquireFailed THEN "error acquiring leases"
    ELSE IF RolloutFailures # <<>> THEN RolloutFailures[1].res
    ELSE "nil"

DeferredReleaseRan ==
    /\ trace # <<>>
    /\ trace[Len(trace)].op = "ReleaseLeases"
    /\ trace[Len(trace)].arg = "app"

\* C34: once DeployMachinesApp has returned after its deferred ReleaseLeases
\* ran, what it returned is the error of the rollout proper, whatever the
\* deferred ReleaseLeases returned: the rollout's error when it failed, nil
\* when it succeeded, also when ReleaseLeases failed.
C34_DeferredReleaseKeepsResult ==
    (pc = "done" /\ DeferredReleaseRan) => result = RolloutError

\* the rollout updated its machines and returned nil although the deferred
\* ReleaseLeases returned an error
C34_Witness ==
    /\ pc = "done"
    /\ DeferredReleaseRan
    /\ trace[Len(trace)].res = "error releasing leases"
    /\ \E lm \in AppMachines : calls[lm].update = 1
    /\ result = "nil"


\* ------------------------------------------------------------------ C35
\* C35: when AcquireLease has returned nil, the LeasableMachine holds a
\* lease as of the moment of the call: its nonce is not empty and its expiry
\* is after the time the call was made, whatever success response the
\* control plane gave.
C35_HasLeaseAfterAcquire ==
    (JustCalled("AcquireLease") /\ trace[1].res = "nil") =>
        /\ leaseNonce[RC] # ""
        /\ leaseExpiration[RC] > trace[1].at


\* ------------------------------------------------------------------ C36
\* C36: ReleaseLease on a lease with a non-empty nonce whose expiry passed
\* no more than the 5-second tolerance ago calls flapsClient.ReleaseLease
\* with the recorded nonce; the call is left out, for a lease with a
\* non-empty nonce, only when the expiry is more than 5 seconds in the past.
C36_SkewToleranceEffective ==
    JustCalled("ReleaseLease") =>
        LET e == trace[1]
        IN  /\ (e.nonce # "" /\ e.exp <= e.at /\ e.at - e.exp < SkewTolerance) =>
                   /\ e.sent = e.nonce
                   /\ calls[RC] = [NoCalls EXCEPT !.release = 1]
            /\ (e.nonce # "" /\ e.sent = "no call") => e.at - e.exp > SkewTolerance


\* ------------------------------------------------------------------ C37
InUpdateLoop == pc \in {"dma_update", "dma_wait_started", "dma_wait_health"}

\* the machine whose turn it is has no nonce, or an expiry that has passed
TurnWithoutLease ==
    /\ pc = "dma_update"
    /\ \/ leaseNonce[md.machineSet[idx]] = ""
       \/ leaseExpiration[md.machineSet[idx]] <= now

\* while the loop runs no lease is acquired, renewed or released
NoRenewal ==
    InUpdateLoop =>
        /\ leaseNonce' = leaseNonce
        /\ leaseExpiration' = leaseExpiration
        /\ \A lm \in LMs : /\ calls'[lm].acquire = calls[lm].acquire
                           /\ calls'[lm].release = calls[lm].release

\* the Update of a machine whose lease is gone
UpdateWithoutLease ==
    (TurnWithoutLease /\ trace' # trace) =>
        /\ trace' = Append(trace, Entry("Update", md.machineSet[idx], "app",
                                        "no current lease"))
        /\ calls' = calls
        /\ machine' = machine
        /\ IF md.strategy # "immediate"
           THEN pc' = "dma_defer" /\ held' = "no current lease"
           ELSE IF idx < Len(md.machineSet)
           THEN pc' = "dma_update" /\ idx' = idx + 1
           ELSE pc' = "dma_defer" /\ held' = "nil"

\* C37: each app machine's lease is acquired at most once, before the update
\* loop, and nothing acquires or renews a lease while the loop runs; when
\* the turn of a machine comes whose lease has expired, its Update returns
\* the no-lease error and makes no update call, which under a strategy other
\* than "immediate" ends the rollout with that error and under "immediate"
\* lets the loop go on to the next machine.
C37_ExpiredLeaseNotRenewed ==
    /\ [](\A lm \in AppMachines : calls[lm].acquire <= 1)
    /\ [](\A q \in 1..Len(trace) :
             (IsAppUpdate(trace[q]) /\ trace[q].res = "no current lease"
              /\ md.strategy # "immediate") =>
                 /\ \A j \in (q + 1)..Len(trace) : trace[j].op = "ReleaseLeases"
                 /\ pc = "done" => result = "no current lease")
    /\ [][NoRenewal /\ UpdateWithoutLease]_vars

\* the lease of the second machine, acquired with the first one's, had run
\* out when its turn came after the first machine's update and waits
C37_Witness ==
    /\ md.strategy # "immediate"
    /\ Len(md.machineSet) = 2
    /\ idx = 2
    /\ Len(trace) >= 2
    /\ trace[Len(trace)] = Entry("Update", md.machineSet[idx], "app", "no current lease")
    /\ calls[md.machineSet[1]].update = 1
    /\ calls[md.machineSet[2]].acquire = 1
    /\ calls[md.machineSet[2]].update = 0
    /\ leaseNonce[md.machineSet[2]] # ""
    /\ leaseExpiration[md.machineSet[2]] = StartTime + LeaseTtl
    /\ leaseExpiration[md.machineSet[2]] <= now


\* ------------------------------------------------------------------ C38
\* the deferred ReleaseLeases of DeployMachinesApp is running after an
\* AcquireLeases that failed, and so ran ReleaseLeases itself
SecondRelease ==
    /\ AppAcquireFailed
    /\ pc = "rel_collect"
    /\ stack # <<>>
    /\ Head(stack) = "dma_released"

\* C38: when AcquireLeases on the app machines failed, so that ReleaseLeases
\* ran as its cleanup and runs again as the deferred call of
\* DeployMachinesApp with no acquisition in between, the second run makes no
\* release call for any member, no member returns an error, and it returns
\* nil.
C38_ReleaseLeasesIdempotent ==
    /\ [](SecondRelease => \A lm \in Range(ms) : ~HasLease(lm))
    /\ []((AppAcquireFailed /\ pc = "dma_released") =>
             /\ ret = "nil"
             /\ fan.errs = {}
             /\ fan.failed = 0)
    /\ [][SecondRelease => calls' = calls]_vars

\* a member whose lease the cleanup released through the control plane went
\* through the deferred ReleaseLeases as well
C38_Witness ==
    /\ AppAcquireFailed
    /\ pc = "dma_released"
    /\ \E lm \in AppMachines : calls[lm].acquire = 1 /\ calls[lm].release = 1
    /\ \E lm \in AppMachines : calls[lm].release = 0


\* =============================================================== SpecWait
\* One call of WaitForState, with its clock: waitCtx expires WaitTimeout
\* after the call, every retry sleeps a backoff of at least one tick, and
\* flapsClient.Wait answers with a context error once waitCtx has expired or
\* the caller's context is canceled.  The goroutine that runs the loop is
\* always eventually scheduled; the environment (time, cancellation) is not
\* obliged to do anything.
WaitTimeout == 3

MaxBackoff == 2

\* waitCtx, cancel := context.WithTimeout(ctx, timeout)
WaitDeadline == StartTime + WaitTimeout

\* what flapsClient.Wait can return under waitCtx
WaitErrs ==
    (IF ctx = "canceled" THEN {"canceled"} ELSE {})
    \cup (IF ctx = "deadline" \/ now >= WaitDeadline THEN {"deadline"} ELSE {})
    \cup (IF ctx = "live" /\ now < WaitDeadline THEN {"nil", "other", "deadline"} ELSE {})

waitFrame ==
    <<leaseVars, cpVars, cfgVars, md, ctx, stack, ms, fan, idx, ret, held, exitCode,
      calls, launches>>

\* one pass of the loop: flapsClient.Wait, the switch on its error, and
\* time.Sleep(b.Duration()) before the next pass
WaitForStatePass ==
    /\ pc = "WaitForState"
    /\ \E err \in WaitErrs :
          /\ trace' = Append(trace, Entry("Wait", RC, trace[1].arg, err))
          /\ IF WaitForStateReturns(err)
             THEN /\ result' = err
                  /\ pc' = "done"
                  /\ UNCHANGED <<now, polls>>
             ELSE /\ \E backoff \in 1..MaxBackoff : now' = now + backoff
                  /\ polls' = polls + 1
                  /\ UNCHANGED <<pc, result>>
    /\ UNCHANGED waitFrame

\* time passes while flapsClient.Wait is out
WaitTick ==
    /\ pc = "WaitForState"
    /\ now < WaitDeadline
    /\ now' = now + 1
    /\ UNCHANGED <<waitFrame, pc, polls, result, trace>>

\* the caller's context is canceled or passes its own deadline
WaitCancel ==
    /\ pc = "WaitForState"
    /\ ctx = "live"
    /\ ctx' \in {"canceled", "deadline"}
    /\ UNCHANGED <<now, leaseVars, cpVars, cfgVars, md, stack, ms, fan, idx, ret, held,
                   exitCode, calls, launches, pc, polls, result, trace>>

InitWait ==
    /\ now = StartTime
    /\ leaseNonce = [lm \in {RC} |-> ""]
    /\ leaseExpiration = [lm \in {RC} |-> ZeroTime]
    /\ machine = [lm \in {RC} |-> OrigMachine]
    /\ cpLease = NoCPLease
    /\ cpGrants = 0
    /\ inflight = [r \in Rollouts |-> NoCall]
    /\ last = [r \in Rollouts |-> NoReturn]
    /\ NoConfig
    /\ md = [strategy |-> "rolling", skipHealthChecks |-> FALSE, restartOnly |-> FALSE,
             releaseCommand |-> "", machineSet |-> <<>>, releaseCommandMachine |-> <<RC>>]
    /\ ctx \in {"live", "canceled", "deadline"}
    /\ pc = "WaitForState"
    /\ stack = <<>>
    /\ ms = <<>>
    /\ fan = NoFan
    /\ idx = 0
    /\ polls = 0
    /\ ret = "nil"
    /\ held = "nil"
    /\ result = "pending"
    /\ exitCode = NoExitCode
    /\ calls = [lm \in {RC} |-> NoCalls]
    /\ launches = <<>>
    /\ \E desiredState \in {"started", "stopped"} :
           trace = <<Entry("WaitForState", RC, desiredState, "running")>>

NextWait == WaitForStatePass \/ WaitTick \/ WaitCancel

SpecWait == InitWait /\ [][NextWait]_vars /\ WF_vars(WaitForStatePass)

\* the errors flapsClient.Wait returned on the passes before the last
EarlierPasses == {trace[q].res : q \in 2..(Len(trace) - 1)}

\* C30: WaitForState always eventually returns, given that flapsClient.Wait
\* answers with a context error once the timeout has elapsed or the context
\* is canceled.  It returns nil only on the pass where Wait reported the
\* desired state, returns a context error on the first pass that ends in
\* one, and every pass that ended in another error was followed by a retry:
\* that error is never what WaitForState returns.
C30_WaitForStateReturns ==
    /\ [](pc = "WaitForState" =>
             /\ result = "pending"
             /\ \A q \in 2..Len(trace) : trace[q].res = "other"
             /\ polls = Len(trace) - 1)
    /\ [](pc = "done" =>
             /\ Len(trace) >= 2
             /\ result = trace[Len(trace)].res
             /\ result \in {"nil", "canceled", "deadline"}
             /\ EarlierPasses \subseteq {"other"}
             /\ Len(trace) = polls + 2)
    /\ <>(pc = "done")

\* WaitForState returned nil on its third pass, after two errors it retried
C30_Witness ==
    /\ pc = "done"
    /\ result = "nil"
    /\ Len(trace) = 4
    /\ trace[2].res = "other"
    /\ trace[3].res = "other"
    /\ trace[4].res = "nil"

\* ============================================================== SpecEvent
\* One call of WaitForEventTypeAfterType("exit", "start") on the release
\* command machine, with its clock: every pass fetches the machine from the
\* control plane, whose event history grows meanwhile, and sleeps a backoff
\* of at least one tick when it finds no event.  The goroutine that runs the
\* loop is always eventually scheduled.
MaxEvents == 4

EventTypes == {"launch", "start", "exit"}

\* api.MachineEvent; the timestamp is the event's position in the history
Event(type, timestamp) == [Type |-> type, Timestamp |-> timestamp]

NilEvent == [Type |-> "", Timestamp |-> ZeroTime]

\* the event histories of at most n events, in order of occurrence
EventHistories(n) ==
    UNION {{[i \in 1..k |-> Event(types[i], i)] : types \in [1..k -> EventTypes]} :
              k \in 0..n}

\* position of the most recent event of a type, 0 if there is none
LatestOfType(events, type) ==
    LET at == {i \in 1..Len(events) : events[i].Type = type}
    IN  IF at = {} THEN 0 ELSE CHOOSE i \in at : \A j \in at : j <= i

\* api.Machine.GetLatestEventOfTypeAfterType: the most recent event of
\* latestEventType that follows the most recent event of firstEventType
GetLatestEventOfTypeAfterType(events, latestEventType, firstEventType) ==
    LET first == LatestOfType(events, firstEventType)
        latest == LatestOfType(events, latestEventType)
    IN  IF first = 0 \/ latest < first THEN NilEvent ELSE events[latest]

\* the mutation: whatever the lookup gave is returned
EventFoundAlways(exitEvent) == TRUE

\* if exitEvent != nil
EventFound(exitEvent) == exitEvent # NilEvent

eventFrame ==
    <<leaseVars, cpVars, orig, mConfig, volumes, resolved, md, ctx, stack, ms, fan, idx,
      held, result, exitCode, calls, launches>>

\* one pass of the loop: flapsClient.Get under waitCtx, the switch on its
\* error, the lookup in the fetched history, and time.Sleep(b.Duration())
\* when it found nothing
WaitForEventTypeAfterType(eventType1, eventType2) ==
    /\ pc = "WaitForEventTypeAfterType"
    /\ \E err \in WaitErrs :
          LET updateMachine == IF err = "nil" THEN fleet[RC] ELSE [Events |-> <<>>]
              exitEvent == GetLatestEventOfTypeAfterType(updateMachine.Events,
                                                         eventType1, eventType2)
          IN  /\ trace' = Append(trace, Entry("Get", RC, updateMachine.Events, err))
              /\ IF err # "nil"
                 THEN /\ ret' = [event |-> NilEvent, err |-> err]
                      /\ pc' = "done"
                      /\ UNCHANGED <<now, polls>>
                 ELSE IF EventFound(exitEvent)
                 THEN /\ ret' = [event |-> exitEvent, err |-> "nil"]
                      /\ pc' = "done"
                      /\ UNCHANGED <<now, polls>>
                 ELSE /\ \E backoff \in 1..MaxBackoff : now' = now + backoff
                      /\ polls' = polls + 1
                      /\ UNCHANGED <<pc, ret>>
    /\ UNCHANGED <<eventFrame, fleet>>

\* the machine goes through another event while the call is polling
MachineEvent ==
    /\ pc = "WaitForEventTypeAfterType"
    /\ Len(fleet[RC].Events) < MaxEvents
    /\ \E type \in EventTypes :
          fleet' = [fleet EXCEPT ![RC].Events =
                        Append(@, Event(type, Len(fleet[RC].Events) + 1))]
    /\ UNCHANGED <<eventFrame, now, pc, polls, ret, trace>>

\* time passes while flapsClient.Get is out
EventTick ==
    /\ pc = "WaitForEventTypeAfterType"
    /\ now < WaitDeadline
    /\ now' = now + 1
    /\ UNCHANGED <<eventFrame, fleet, pc, polls, ret, trace>>

\* the caller's context is canceled or passes its own deadline
EventCancel ==
    /\ pc = "WaitForEventTypeAfterType"
    /\ ctx = "live"
    /\ ctx' \in {"canceled", "deadline"}
    /\ UNCHANGED <<now, leaseVars, cpVars, cfgVars, md, stack, ms, fan, idx, ret, held,
                   exitCode, calls, launches, pc, polls, result, trace>>

InitEvent ==
    /\ now = StartTime
    /\ leaseNonce = [lm \in {RC} |-> ""]
    /\ leaseExpiration = [lm \in {RC} |-> ZeroTime]
    /\ machine = [lm \in {RC} |-> OrigMachine]
    /\ cpLease = NoCPLease
    /\ cpGrants = 0
    /\ inflight = [r \in Rollouts |-> NoCall]
    /\ last = [r \in Rollouts |-> NoReturn]
    /\ fleet \in {[lm \in {RC} |-> [Events |-> events]] :
                     events \in EventHistories(MaxEvents - 1)}
    /\ orig = <<>>
    /\ mConfig = <<>>
    /\ volumes = <<>>
    /\ resolved = <<>>
    /\ md = [strategy |-> "rolling", skipHealthChecks |-> FALSE, restartOnly |-> FALSE,
             releaseCommand |-> "cmd", machineSet |-> <<>>,
             releaseCommandMachine |-> <<RC>>]
    /\ ctx \in {"live", "canceled", "deadline"}
    /\ pc = "WaitForEventTypeAfterType"
    /\ stack = <<>>
    /\ ms = <<>>
    /\ fan = NoFan
    /\ idx = 0
    /\ polls = 0
    /\ ret = [event |-> NilEvent, err |-> "pending"]
    /\ held = "nil"
    /\ result = "pending"
    /\ exitCode = NoExitCode
    /\ calls = [lm \in {RC} |-> NoCalls]
    /\ launches = <<>>
    /\ trace = <<>>

NextEvent ==
    \/ WaitForEventTypeAfterType("exit", "start")
    \/ MachineEvent
    \/ EventTick
    \/ EventCancel

SpecEvent ==
    InitEvent /\ [][NextEvent]_vars /\ WF_vars(WaitForEventTypeAfterType("exit", "start"))

\* ------------------------------------------------------------------ C32
\* in the history h, the event at position i is an exit that no start
\* follows and some start precedes
ExitOfLatestRun(h, i) ==
    /\ h[i].Type = "exit"
    /\ \E j \in 1..(i - 1) : h[j].Type = "start"
    /\ \A j \in (i + 1)..Len(h) : h[j].Type # "start"

\* the passes of the loop that were followed by another pass
SleptPasses == IF pc = "done" THEN 1..(Len(trace) - 1) ELSE 1..Len(trace)

\* C32: WaitForEventTypeAfterType("exit", "start") always eventually
\* returns, given that flapsClient.Get answers with a context error once the
\* timeout has elapsed or the context is canceled.  The event it returns is
\* an exit event of the history its last Get fetched, placed after the most
\* recent start event of that history; every pass before the last fetched a
\* history holding no such event, whatever exit events of earlier runs it
\* held; an error is returned with no event.
C32_EventAfterLatestStart ==
    /\ [](\A q \in SleptPasses :
             /\ trace[q].res = "nil"
             /\ \A i \in 1..Len(trace[q].arg) : ~ExitOfLatestRun(trace[q].arg, i))
    /\ [](pc = "done" =>
             LET fetched == trace[Len(trace)].arg
             IN  /\ ret.err = trace[Len(trace)].res
                 /\ ret.err # "nil" => ret.event = NilEvent
                 /\ ret.err = "nil" =>
                        /\ ret.event.Timestamp \in 1..Len(fetched)
                        /\ fetched[ret.event.Timestamp] = ret.event
                        /\ ExitOfLatestRun(fetched, ret.event.Timestamp))
    /\ <>(pc = "done")

\* the call slept over a history whose only exit was that of an earlier run,
\* and returned the exit that followed the latest start
C32_Witness ==
    /\ pc = "done"
    /\ ret.err = "nil"
    /\ polls >= 1
    /\ \E i \in 1..Len(trace[1].arg) :
           /\ trace[1].arg[i].Type = "exit"
           /\ i < LatestOfType(trace[1].arg, "start")
    /\ ret.event.Timestamp > Len(trace[1].arg)

====
